---- MODULE Spec2Model ----
(***************************************************************************)
(* Render-state reconciliation engine of lastvigil-front: the Game class   *)
(* (snapshot reconciliation and the render loop), the Enemy, Effect and    *)
(* Player animation clocks, the Renderer's wizard clock, the Camera and    *)
(* the GazeCursor.                                                         *)
(*                                                                         *)
(* Number representation.  Times are integer milliseconds.  Normalised     *)
(* coordinates of the wire format (floats in [0,1]) are integers in        *)
(* thousandths (PERMILLE).  GazeCursor positions are fixed-point pixels    *)
(* in units of 1/CursorScale pixel, the smoothing factor is in hundredths; *)
(* the subtraction and the multiplication of GazeCursor.update round as    *)
(* double arithmetic does, to either neighbour of the exact value, one     *)
(* fixed-point unit standing for one rounding step.                        *)
(***************************************************************************)
EXTENDS Integers, Sequences, FiniteSets, TLC

VARIABLES
    isRunning,      \* Game.isRunning
    raf,            \* number of gameLoop callbacks requestAnimationFrame holds
    enemies,        \* Game.enemies : Map<string, Enemy>, as a function id -> Enemy
    activeEffects,  \* Game.activeEffects : Effect[]
    player,         \* Game.player : Player
    wizard,         \* Renderer: witch HP and wizard animation clock
    gazeCursor,     \* GazeCursor fields
    camera,         \* Camera fields
    en,             \* one free-standing Enemy object (class-level operations)
    fx,             \* one free-standing Effect object (class-level operations)
    clock,          \* history: time fed to en / fx since their clocks were last zeroed
    created,        \* history: number of Effect instances constructed per effect id
    drawn,          \* history: what the last render pass handed to draw()
    swept,          \* history: effects the last tick removed as complete
    cursorHist,     \* history: cursor x when target or position last changed,
                    \*          updates since, updates in all
    lastOp,         \* history: the last operation and its arguments
    edgeHoldStartTime, \* main.ts: when the pointer entered a scroll zone, 0 = unset
    now,            \* Date.now(), milliseconds
    network,        \* Network fields
    netHist,        \* history: browser side of the Network (pending timeout,
                    \*          socket closed by disconnect(), connects since open)
    app,            \* main.ts: startup phase, isGameInitialized, game-over screen
    assets          \* AssetLoader: loadedImages in insertion order, loads pending

vars == <<isRunning, raf, enemies, activeEffects, player, wizard, gazeCursor, camera,
          en, fx, clock, created, drawn, swept, cursorHist, lastOp,
          edgeHoldStartTime, now, network, netHist, app, assets>>

objVars == <<en, fx, clock>>
cursorVars == <<gazeCursor, cursorHist>>
gameVars == <<isRunning, raf, enemies, activeEffects, player, wizard, created, drawn, swept>>
netVars == <<network, netHist>>
mainVars == <<edgeHoldStartTime, now, netVars, app, assets>>

(***************************************************************************)
(* Bounds of the model.                                                    *)
(***************************************************************************)
MaxSnapshotLen == 2     \* entries per list of one snapshot
MaxPlayerFrame == 6     \* ticks stop once Player.currentFrame reaches this
MaxClock == 1800        \* total time fed to a free-standing Enemy / Effect clock
MaxCursorUpdates == 3   \* update() calls made on a free-standing GazeCursor
MaxNow == 2200          \* messages stop once Date.now() reaches this
MaxLoopTicks == 6       \* ticks run by start() and frame callbacks when both are free
MaxWave == 3            \* highest waveNumber a message carries

(***************************************************************************)
(* Environment and program constants.                                      *)
(***************************************************************************)
PERMILLE == 1000
InnerWidth == 1200      \* window.innerWidth
InnerHeight == 800      \* window.innerHeight
WORLD_WIDTH == 2148
BaseYPercent == 70      \* baseY = 0.7 in Game.updateEffects
PlayerMaxHP == 100      \* maxHP in Game.updateGameState

Max(a, b) == IF a >= b THEN a ELSE b
Min(a, b) == IF a <= b THEN a ELSE b

(***************************************************************************)
(* Static metadata: ENEMY_TYPES, VFX_TYPES, WIZARD_SPRITES (the entries    *)
(* the model uses).                                                        *)
(***************************************************************************)
AnimationStates == {"walk", "hurt", "death"}

ENEMY_TYPES ==
    [ slime |->
        [ sprites |-> [ walk  |-> [frameCount |-> 5, frameDuration |-> 150],
                        hurt  |-> [frameCount |-> 4, frameDuration |-> 100],
                        death |-> [frameCount |-> 4, frameDuration |-> 200] ],
          maxHP |-> 50 ],
      skeleton |->
        [ sprites |-> [ walk  |-> [frameCount |-> 8, frameDuration |-> 150],
                        hurt  |-> [frameCount |-> 4, frameDuration |-> 100],
                        death |-> [frameCount |-> 4, frameDuration |-> 200] ],
          maxHP |-> 80 ] ]

\* getEnemyConfig(typeId) returns ENEMY_TYPES[typeId] || null
HasEnemyConfig(typeId) == typeId \in DOMAIN ENEMY_TYPES

VFX_TYPES ==
    [ fireSlash   |-> [frameCount |-> 19, frameDuration |-> 50, loop |-> FALSE,
                       yOffsetPercent |-> -5],
      lightningV2 |-> [frameCount |-> 8, frameDuration |-> 60, loop |-> FALSE,
                       yOffsetPercent |-> -15] ]

\* AssetLoader.getVFXMetadata(name) returns VFX_TYPES[name] || null
HasVFXMetadata(type) == type \in DOMAIN VFX_TYPES

(***************************************************************************)
(* AssetLoader: the keys of loadedImages are pairs <<kind, name>>           *)
(***************************************************************************)
\* the images loadAll starts to load: one map, every VFX sheet, one enemy sheet
AssetKeys ==
    {<<"map", "graveyard">>} \cup { <<"vfx", t>> : t \in DOMAIN VFX_TYPES }
        \cup {<<"enemy", "slime_walk">>}

\* the order in which loadAll pushes its loads
AssetOrder ==
    << <<"map", "graveyard">>, <<"vfx", "fireSlash">>, <<"vfx", "lightningV2">>,
       <<"enemy", "slime_walk">> >>

\* AssetLoader.getVFX(name) returns an image
HasVFX(name) ==
    \E i \in DOMAIN assets.loadedImages : assets.loadedImages[i] = <<"vfx", name>>

\* AssetLoader.getVFXWithMetadata(name): null unless image and metadata both exist
HasVFXWithMetadata(type) == HasVFX(type) /\ HasVFXMetadata(type)

\* AssetLoader.getImageByPath(path) for the path of an enemy sprite sheet returns
\* an image: the first entry of loadedImages passes the enemy-path test
HasImageByPath == Len(assets.loadedImages) > 0

WIZARD_SPRITES ==
    [ idle    |-> [frameCount |-> 6, frameDuration |-> 150],
      hurt    |-> [frameCount |-> 4, frameDuration |-> 100],
      attack  |-> [frameCount |-> 6, frameDuration |-> 120],
      attack2 |-> [frameCount |-> 6, frameDuration |-> 120] ]

(***************************************************************************)
(* Enemy                                                                   *)
(***************************************************************************)
\* new Enemy(id, config, assetLoader)
NewEnemy(typeId) ==
    [ typeId |-> typeId,
      x |-> 0, y |-> 0,
      currentHP |-> ENEMY_TYPES[typeId].maxHP,
      maxHP |-> ENEMY_TYPES[typeId].maxHP,
      animationState |-> "walk",
      isDead |-> FALSE,
      localCurrentFrame |-> 0,
      frameTimer |-> 0 ]

EnemySprite(e) == ENEMY_TYPES[e.typeId].sprites[e.animationState]

\* variant of updateFromServer that zeroes the local clock on every update
UpdateFromServerAlwaysReset(e, data) ==
    [ e EXCEPT
        !.x = (data.x * WORLD_WIDTH) \div PERMILLE,
        !.y = (data.y * InnerHeight) \div PERMILLE,
        !.currentHP = data.currentHP,
        !.maxHP = data.maxHP,
        !.animationState = data.animationState,
        !.localCurrentFrame = 0,
        !.frameTimer = 0,
        !.isDead = data.isDead ]

\* variant of updateFromServer that leaves frameTimer alone on a label change
UpdateFromServerKeepTimer(e, data) ==
    LET changed == e.animationState # data.animationState
    IN  [ e EXCEPT
            !.x = (data.x * WORLD_WIDTH) \div PERMILLE,
            !.y = (data.y * InnerHeight) \div PERMILLE,
            !.currentHP = data.currentHP,
            !.maxHP = data.maxHP,
            !.animationState = data.animationState,
            !.localCurrentFrame = IF changed THEN 0 ELSE @,
            !.isDead = data.isDead ]

\* Enemy.updateFromServer(data)
UpdateFromServer(e, data) ==
    LET changed == e.animationState # data.animationState
    IN  [ e EXCEPT
            !.x = (data.x * WORLD_WIDTH) \div PERMILLE,
            !.y = (data.y * InnerHeight) \div PERMILLE,
            !.currentHP = data.currentHP,
            !.maxHP = data.maxHP,
            !.animationState = data.animationState,
            !.localCurrentFrame = IF changed THEN 0 ELSE @,
            !.frameTimer = IF changed THEN 0 ELSE @,
            !.isDead = data.isDead ]

\* Enemy.updateAnimation(deltaTime)
UpdateAnimation(e, deltaTime) ==
    LET spriteConfig == EnemySprite(e)
        timer == e.frameTimer + deltaTime
        next == e.localCurrentFrame + 1
    IN  IF e.animationState = "death"
           /\ e.localCurrentFrame >= spriteConfig.frameCount - 1
        THEN e
        ELSE IF timer >= spriteConfig.frameDuration
        THEN [ e EXCEPT
                 !.frameTimer = timer - spriteConfig.frameDuration,
                 !.localCurrentFrame =
                     IF next >= spriteConfig.frameCount
                     THEN (IF e.animationState = "death"
                           THEN spriteConfig.frameCount - 1
                           ELSE 0)
                     ELSE next ]
        ELSE [ e EXCEPT !.frameTimer = timer ]

\* the animation clock of an enemy
ClockOf(e) == [frame |-> e.localCurrentFrame, timer |-> e.frameTimer,
               label |-> e.animationState]

(***************************************************************************)
(* Effect                                                                  *)
(***************************************************************************)
\* new Effect(worldX, y, image, metadata), tagged with the server's id
NewEffect(id, type, worldX, y) ==
    [ id |-> id, type |-> type, worldX |-> worldX, y |-> y,
      currentFrame |-> 0, elapsedTime |-> 0, isFinished |-> FALSE ]

\* variant of Effect.update whose terminal branch stores frameCount
EffectUpdateNoClamp(e, deltaTime) ==
    LET meta == VFX_TYPES[e.type]
        elapsed == e.elapsedTime + deltaTime
        next == e.currentFrame + 1
    IN  IF e.isFinished THEN e
        ELSE IF elapsed >= meta.frameDuration
        THEN IF next >= meta.frameCount
             THEN IF meta.loop
                  THEN [ e EXCEPT !.elapsedTime = elapsed - meta.frameDuration,
                                  !.currentFrame = 0 ]
                  ELSE [ e EXCEPT !.elapsedTime = elapsed - meta.frameDuration,
                                  !.currentFrame = meta.frameCount,
                                  !.isFinished = TRUE ]
             ELSE [ e EXCEPT !.elapsedTime = elapsed - meta.frameDuration,
                             !.currentFrame = next ]
        ELSE [ e EXCEPT !.elapsedTime = elapsed ]

\* Effect.update(deltaTime)
EffectUpdate(e, deltaTime) ==
    LET meta == VFX_TYPES[e.type]
        elapsed == e.elapsedTime + deltaTime
        next == e.currentFrame + 1
    IN  IF e.isFinished THEN e
        ELSE IF elapsed >= meta.frameDuration
        THEN IF next >= meta.frameCount
             THEN IF meta.loop
                  THEN [ e EXCEPT !.elapsedTime = elapsed - meta.frameDuration,
                                  !.currentFrame = 0 ]
                  ELSE [ e EXCEPT !.elapsedTime = elapsed - meta.frameDuration,
                                  !.currentFrame = meta.frameCount - 1,
                                  !.isFinished = TRUE ]
             ELSE [ e EXCEPT !.elapsedTime = elapsed - meta.frameDuration,
                             !.currentFrame = next ]
        ELSE [ e EXCEPT !.elapsedTime = elapsed ]

\* Effect.isComplete()
IsComplete(e) == e.isFinished

\* Effect.reset()
EffectReset(e) ==
    [ e EXCEPT !.currentFrame = 0, !.elapsedTime = 0, !.isFinished = FALSE ]

(***************************************************************************)
(* Player                                                                  *)
(***************************************************************************)
\* field initialisers of class Player
NewPlayer ==
    [ currentHP |-> 100, maxHP |-> 100, animationState |-> "idle",
      currentFrame |-> 0, frameTimer |-> 0 ]

\* Player.updateHP(newHP, maxHP), with playHurtAnimation() inlined
PlayerUpdateHP(p, newHP, maxHP) ==
    LET hurt == newHP < p.currentHP
    IN  [ p EXCEPT
            !.currentHP = newHP,
            !.maxHP = maxHP,
            !.animationState = IF hurt THEN "hurt" ELSE @,
            !.currentFrame = IF hurt THEN 0 ELSE @,
            !.frameTimer = IF hurt THEN 0 ELSE @ ]

\* Player.update(deltaTime)
PlayerUpdate(p, deltaTime) ==
    LET currentConfig == WIZARD_SPRITES[p.animationState]
        timer == p.frameTimer + deltaTime
        next == p.currentFrame + 1
    IN  IF timer >= currentConfig.frameDuration
        THEN IF p.animationState = "hurt" /\ next >= WIZARD_SPRITES.hurt.frameCount
             THEN [ p EXCEPT !.frameTimer = 0, !.animationState = "idle",
                             !.currentFrame = 0 ]
             ELSE [ p EXCEPT !.frameTimer = 0, !.currentFrame = next ]
        ELSE [ p EXCEPT !.frameTimer = timer ]

(***************************************************************************)
(* Renderer: witch HP and wizard animation                                 *)
(***************************************************************************)
\* field initialisers of class Renderer
NewWizard ==
    [ witchHP |-> 100, witchMaxHP |-> 100, witchIsDead |-> FALSE,
      previousWitchHP |-> 100,
      wizardAnimationState |-> "idle",
      wizardCurrentFrame |-> 0, wizardElapsedTime |-> 0 ]

\* Renderer.updateWitchHP(currentHP, maxHP, isDead)
UpdateWitchHP(w, currentHP, maxHP, isDead) ==
    LET hurt == currentHP < w.previousWitchHP /\ currentHP > 0
    IN  [ w EXCEPT
            !.wizardAnimationState = IF hurt THEN "hurt" ELSE @,
            !.wizardCurrentFrame = IF hurt THEN 0 ELSE @,
            !.wizardElapsedTime = IF hurt THEN 0 ELSE @,
            !.previousWitchHP = currentHP,
            !.witchHP = currentHP,
            !.witchMaxHP = maxHP,
            !.witchIsDead = isDead ]

\* Renderer.playAttackAnimation(), attackType being the outcome of Math.random()
PlayAttackAnimation(w, attackType) ==
    IF w.wizardAnimationState \in {"attack", "attack2", "hurt"}
    THEN w
    ELSE [ w EXCEPT
             !.wizardAnimationState = attackType,
             !.wizardCurrentFrame = 0,
             !.wizardElapsedTime = 0 ]

\* variant of updateWizardAnimation in which every state loops like idle
UpdateWizardAnimationLoops(w, deltaTime) ==
    LET currentConfig == WIZARD_SPRITES[w.wizardAnimationState]
        elapsed == w.wizardElapsedTime + deltaTime
    IN  IF elapsed >= currentConfig.frameDuration
        THEN [ w EXCEPT
                 !.wizardElapsedTime = elapsed - currentConfig.frameDuration,
                 !.wizardCurrentFrame = (@ + 1) % currentConfig.frameCount ]
        ELSE [ w EXCEPT !.wizardElapsedTime = elapsed ]

\* Renderer.updateWizardAnimation(deltaTime)
UpdateWizardAnimation(w, deltaTime) ==
    LET currentConfig == WIZARD_SPRITES[w.wizardAnimationState]
        elapsed == w.wizardElapsedTime + deltaTime
        next == w.wizardCurrentFrame + 1
    IN  IF elapsed >= currentConfig.frameDuration
        THEN IF w.wizardAnimationState \in {"hurt", "attack", "attack2"}
             THEN IF next >= currentConfig.frameCount
                  THEN [ w EXCEPT
                           !.wizardElapsedTime = elapsed - currentConfig.frameDuration,
                           !.wizardAnimationState = "idle",
                           !.wizardCurrentFrame = 0 ]
                  ELSE [ w EXCEPT
                           !.wizardElapsedTime = elapsed - currentConfig.frameDuration,
                           !.wizardCurrentFrame = next ]
             ELSE [ w EXCEPT
                      !.wizardElapsedTime = elapsed - currentConfig.frameDuration,
                      !.wizardCurrentFrame = next % currentConfig.frameCount ]
        ELSE [ w EXCEPT !.wizardElapsedTime = elapsed ]

(***************************************************************************)
(* GazeCursor (fixed-point pixels, 1/CursorScale; factor in 1/SpeedScale)  *)
(***************************************************************************)
CursorScale == 100
SpeedScale == 100
CursorRadius == 55          \* config.radius ?? 55
DefaultChaseSpeed == 8      \* chaseSpeed 0.08, in 1/SpeedScale

Px(x) == x * CursorScale

\* new GazeCursor({chaseSpeed, initialX, initialY})
NewGazeCursor(chaseSpeed, initialX, initialY) ==
    [ radius |-> Px(CursorRadius), chaseSpeed |-> chaseSpeed,
      targetX |-> initialX, targetY |-> initialY,
      currentX |-> initialX, currentY |-> initialY ]

\* variant of setTarget that only applies the upper limits
SetTargetUpperOnly(c, x, y, innerWidth, innerHeight) ==
    [ c EXCEPT
        !.targetX = Min(x, innerWidth - c.radius),
        !.targetY = Min(y, innerHeight - c.radius) ]

\* GazeCursor.setTarget(x, y) in a window of the given inner size
SetTargetWithin(c, x, y, innerWidth, innerHeight) ==
    [ c EXCEPT
        !.targetX = Max(c.radius, Min(x, innerWidth - c.radius)),
        !.targetY = Max(c.radius, Min(y, innerHeight - c.radius)) ]

\* GazeCursor.setTarget(x, y)
SetTarget(c, x, y) == SetTargetWithin(c, x, y, Px(InnerWidth), Px(InnerHeight))

\* target - current in double arithmetic: exact when one operand is zero or the
\* operands are within a factor two of each other, otherwise rounded to a
\* neighbour of the exact difference
FloatSub(a, b) ==
    IF a = 0 \/ b = 0 \/ (a > 0 /\ b > 0 /\ 2 * a >= b /\ 2 * b >= a)
    THEN {a - b}
    ELSE {a - b - 1, a - b, a - b + 1}

\* a + b in double arithmetic: exact when one operand is zero, otherwise rounded
\* to a neighbour of the exact sum
FloatAdd(a, b) ==
    IF a = 0 \/ b = 0 THEN {a + b} ELSE {a + b - 1, a + b, a + b + 1}

\* (target - current) * chaseSpeed: the product is rounded to a neighbour of its
\* exact value
ChaseDelta(target, current, speed) ==
    UNION { { (d * speed) \div SpeedScale, -((-(d * speed)) \div SpeedScale) } :
              d \in FloatSub(target, current) }

\* variant of update() that does not move the cursor
CursorUpdateFrozen(c) == {c}

\* GazeCursor.update(): the set of outcomes
CursorUpdate(c) ==
    { [ c EXCEPT !.currentX = @ + dx, !.currentY = @ + dy ] :
        dx \in ChaseDelta(c.targetX, c.currentX, c.chaseSpeed),
        dy \in ChaseDelta(c.targetY, c.currentY, c.chaseSpeed) }

\* GazeCursor.setPosition(x, y)
SetPosition(c, x, y) ==
    [ c EXCEPT !.currentX = x, !.currentY = y, !.targetX = x, !.targetY = y ]

\* GazeCursor.setChaseSpeed(speed)
SetChaseSpeed(c, speed) ==
    [ c EXCEPT !.chaseSpeed = Max(0, Min(SpeedScale, speed)) ]

\* GazeCursor.clampToBounds(canvasWidth, canvasHeight)
ClampToBounds(c, canvasWidth, canvasHeight) ==
    [ c EXCEPT
        !.targetX = Max(c.radius, Min(c.targetX, canvasWidth - c.radius)),
        !.targetY = Max(c.radius, Min(c.targetY, canvasHeight - c.radius)) ]

(***************************************************************************)
(* Camera (whole pixels)                                                   *)
(***************************************************************************)
\* new Camera({worldWidth, viewportWidth, viewportHeight})
NewCamera(worldWidth, viewportWidth, viewportHeight) ==
    [ offsetX |-> 0, offsetY |-> 0, worldWidth |-> worldWidth,
      viewportWidth |-> viewportWidth, viewportHeight |-> viewportHeight ]

\* Camera.clampOffset()
ClampOffset(cam) ==
    LET maxOffset == Max(0, cam.worldWidth - cam.viewportWidth)
    IN  [ cam EXCEPT !.offsetX = Max(0, Min(cam.offsetX, maxOffset)) ]

\* Camera.moveX(deltaX)
MoveX(cam, deltaX) == ClampOffset([ cam EXCEPT !.offsetX = @ + deltaX ])

\* Camera.setOffsetX(offset)
SetOffsetX(cam, offset) == ClampOffset([ cam EXCEPT !.offsetX = offset ])

\* variant of updateViewportSize that does not clamp the offset again
UpdateViewportSizeNoClamp(cam, width, height) ==
    [ cam EXCEPT !.viewportWidth = width, !.viewportHeight = height ]

\* Camera.updateViewportSize(width, height)
UpdateViewportSize(cam, width, height) ==
    ClampOffset([ cam EXCEPT !.viewportWidth = width, !.viewportHeight = height ])

\* Camera.centerOnWorldX(worldX); viewport widths of the model are even
CenterOnWorldX(cam, worldX) ==
    ClampOffset([ cam EXCEPT !.offsetX = worldX - (cam.viewportWidth \div 2) ])

\* variant of worldToScreen that applies the horizontal offset to both axes
WorldToScreenBothAxes(cam, worldX, worldY) ==
    { [ x |-> sx, y |-> sy ] : sx \in FloatSub(worldX, cam.offsetX),
                               sy \in FloatSub(worldY, cam.offsetX) }

\* Camera.worldToScreen(worldX, worldY): the set of outcomes of the two
\* subtractions for operands that are arbitrary doubles
WorldToScreen(cam, worldX, worldY) ==
    { [ x |-> sx, y |-> sy ] : sx \in FloatSub(worldX, cam.offsetX),
                               sy \in FloatSub(worldY, cam.offsetY) }

\* Camera.screenToWorld(screenX, screenY): the set of outcomes of the two additions
ScreenToWorld(cam, screenX, screenY) ==
    { [ x |-> wx, y |-> wy ] : wx \in FloatAdd(screenX, cam.offsetX),
                               wy \in FloatAdd(screenY, cam.offsetY) }

(***************************************************************************)
(* main.ts: the edge-scroll controller.  World positions and the camera    *)
(* offset are whole pixels; a scroll speed that is not a whole number is   *)
(* either neighbour of the exact value.                                    *)
(***************************************************************************)
EDGE_HOLD_THRESHOLD == 300  \* milliseconds
EDGE_THRESHOLD_TENTHS == 1  \* EDGE_THRESHOLD = 0.1
MIN_SCROLL_SPEED == 10
MAX_SCROLL_SPEED == 50
StartTime == 1000           \* Date.now() when the page is loaded

\* scrollMargin = viewportWidth * EDGE_THRESHOLD
ScrollMargin(cam) == (cam.viewportWidth * EDGE_THRESHOLD_TENTHS) \div 10

\* leftScrollZone = cameraLeft + scrollMargin
LeftScrollZone(cam) == cam.offsetX + ScrollMargin(cam)

\* rightScrollZone = cameraRight - scrollMargin
RightScrollZone(cam) == cam.offsetX + cam.viewportWidth - ScrollMargin(cam)

\* variant of the left test that ends the zone at the left edge of the viewport
IsInLeftZoneWindowed(cam, worldX) ==
    worldX < LeftScrollZone(cam) /\ worldX >= cam.offsetX

\* isInLeftZone = worldX < leftScrollZone
IsInLeftZone(cam, worldX) == worldX < LeftScrollZone(cam)

\* variant of the right test that ends the zone at the right edge of the viewport
IsInRightZoneWindowed(cam, worldX) ==
    worldX > RightScrollZone(cam) /\ worldX <= cam.offsetX + cam.viewportWidth

\* isInRightZone = worldX > rightScrollZone
IsInRightZone(cam, worldX) == worldX > RightScrollZone(cam)

\* variant of the hold timer that survives an evaluation outside the zones
HoldStartKept(hold, t, inZone) == IF hold = 0 /\ inZone THEN t ELSE hold

\* edgeHoldStartTime after one evaluation at time t
HoldStart(hold, t, inZone) ==
    IF inZone THEN (IF hold = 0 THEN t ELSE hold) ELSE 0

\* variant of the hold test without a threshold
HoldElapsedAtOnce(start, t) == t - start >= 0

\* holdDuration >= EDGE_HOLD_THRESHOLD
HoldElapsed(start, t) == t - start >= EDGE_HOLD_THRESHOLD

\* scrollSpeed * scrollMargin, exactly:
\* MIN + (MAX - MIN) * Math.min(distanceFromZoneEdge / scrollMargin, 1)
ScrollSpeedTimesMargin(distance, margin) ==
    MIN_SCROLL_SPEED * margin
        + (MAX_SCROLL_SPEED - MIN_SCROLL_SPEED) * Min(distance, margin)

\* variant of the speed without the cap of the normalised distance
ScrollSpeedsUncapped(distance, margin) ==
    LET numer == MIN_SCROLL_SPEED * margin
                    + (MAX_SCROLL_SPEED - MIN_SCROLL_SPEED) * distance
    IN  { numer \div margin, -((-numer) \div margin) }

\* scrollSpeed in whole pixels
ScrollSpeeds(distance, margin) ==
    LET numer == ScrollSpeedTimesMargin(distance, margin)
    IN  { numer \div margin, -((-numer) \div margin) }

\* checkAndScrollCamera(worldX) evaluated at time t: the outcomes
\* [camera, hold, speed], speed 0 when no speed was computed
CheckAndScrollCamera(cam, hold, t, worldX) ==
    LET scrollMargin == ScrollMargin(cam)
        isInLeftZone == IsInLeftZone(cam, worldX)
        isInRightZone == IsInRightZone(cam, worldX)
        start == HoldStart(hold, t, isInLeftZone \/ isInRightZone)
        maxOffset == WORLD_WIDTH - cam.viewportWidth
    IN  IF (isInLeftZone \/ isInRightZone) /\ HoldElapsed(start, t)
        THEN IF isInLeftZone
             THEN { [ camera |-> IF cam.offsetX > 0 THEN MoveX(cam, -v) ELSE cam,
                      hold |-> start, speed |-> v ] :
                    v \in ScrollSpeeds(LeftScrollZone(cam) - worldX, scrollMargin) }
             ELSE { [ camera |-> IF cam.offsetX < maxOffset THEN MoveX(cam, v) ELSE cam,
                      hold |-> start, speed |-> v ] :
                    v \in ScrollSpeeds(worldX - RightScrollZone(cam), scrollMargin) }
        ELSE { [ camera |-> cam, hold |-> start, speed |-> 0 ] }

(***************************************************************************)
(* Network                                                                 *)
(***************************************************************************)
ReconnectInterval == 3000       \* reconnectInterval passed by initNetwork
MaxReconnectAttempts == 5       \* maxReconnectAttempts passed by initNetwork

\* new Network(config); ws is "null" or the readyState of the current socket,
\* reconnectTimer is 0 for null and 1 for a timeout handle
NewNetwork(reconnectInterval, maxReconnectAttempts) ==
    [ ws |-> "null",
      reconnectAttempts |-> 0,
      reconnectTimer |-> 0,
      isIntentionallyClosed |-> FALSE,
      reconnectInterval |-> reconnectInterval,
      maxReconnectAttempts |-> maxReconnectAttempts ]

\* variant of attemptReconnect without the limit
AttemptReconnectUnlimited(net, hist) ==
    [ network |-> [ net EXCEPT !.reconnectAttempts = @ + 1, !.reconnectTimer = 1 ],
      netHist |-> [ hist EXCEPT !.pending = @ + 1, !.delay = net.reconnectInterval ] ]

\* Network.attemptReconnect(): the Network and the browser's timeout table after it
AttemptReconnect(net, hist) ==
    IF net.reconnectAttempts >= net.maxReconnectAttempts
    THEN [ network |-> net, netHist |-> hist ]
    ELSE [ network |-> [ net EXCEPT !.reconnectAttempts = @ + 1,
                                    !.reconnectTimer = 1 ],
           netHist |-> [ hist EXCEPT !.pending = @ + 1,
                                     !.delay = net.reconnectInterval ] ]

\* Network.connect(); throws: whether new WebSocket(url) throws
Connect(net, hist, throws) ==
    IF net.ws = "OPEN"
    THEN [ network |-> net, netHist |-> hist ]
    ELSE IF throws
         THEN AttemptReconnect([ net EXCEPT !.isIntentionallyClosed = FALSE ], hist)
         ELSE [ network |-> [ net EXCEPT !.isIntentionallyClosed = FALSE,
                                         !.ws = "CONNECTING" ],
                netHist |-> hist ]

\* ws.onopen
OnOpen(net) == [ net EXCEPT !.ws = "OPEN", !.reconnectAttempts = 0 ]

\* ws.onclose of the current socket
OnClose(net, hist) ==
    IF ~net.isIntentionallyClosed
    THEN AttemptReconnect([ net EXCEPT !.ws = "CLOSED" ], hist)
    ELSE [ network |-> [ net EXCEPT !.ws = "CLOSED" ], netHist |-> hist ]

\* Network.disconnect()
Disconnect(net, hist) ==
    [ network |-> [ net EXCEPT !.isIntentionallyClosed = TRUE,
                               !.reconnectTimer = 0,
                               !.ws = "null" ],
      netHist |-> [ hist EXCEPT
                      !.pending = IF net.reconnectTimer # 0 /\ @ > 0 THEN @ - 1 ELSE @,
                      !.closing = @ \/ net.ws \in {"OPEN", "CONNECTING"} ] ]

(***************************************************************************)
(* Game: reconciliation of a snapshot                                      *)
(***************************************************************************)
\* new Set(enemyStates.map((e) => e.id))
IdsOf(list) == { list[i].id : i \in DOMAIN list }

\* variant of the first loop that deletes nothing
RemoveNone(es, enemyStates) == es

\* variant of the first loop that only deletes the shadows of dead enemies
RemoveAbsentDead(es, enemyStates) ==
    [ id \in { k \in DOMAIN es : k \in IdsOf(enemyStates) \/ ~es[k].isDead } |-> es[id] ]

\* Game.updateEnemies, first loop: delete every enemy absent from the snapshot
RemoveAbsent(es, enemyStates) ==
    [ id \in (DOMAIN es) \cap IdsOf(enemyStates) |-> es[id] ]

\* variant of the loop body that updates only the enemies that already existed
CreateElseUpdate(es, enemyState) ==
    IF enemyState.id \in DOMAIN es
    THEN [ es EXCEPT ![enemyState.id] = UpdateFromServer(@, enemyState) ]
    ELSE IF HasEnemyConfig(enemyState.typeId)
    THEN (enemyState.id :> NewEnemy(enemyState.typeId)) @@ es
    ELSE es

\* Game.updateEnemies, body of the second loop: create if missing, then update
CreateOrUpdate(es, enemyState) ==
    IF enemyState.id \in DOMAIN es
    THEN [ es EXCEPT ![enemyState.id] = UpdateFromServer(@, enemyState) ]
    ELSE IF HasEnemyConfig(enemyState.typeId)
    THEN (enemyState.id :> UpdateFromServer(NewEnemy(enemyState.typeId), enemyState))
         @@ es
    ELSE es

RECURSIVE ApplyEnemyStates(_, _)
ApplyEnemyStates(es, enemyStates) ==
    IF enemyStates = << >> THEN es
    ELSE ApplyEnemyStates(CreateOrUpdate(es, Head(enemyStates)), Tail(enemyStates))

\* the entries before the first one whose type has no configuration
RECURSIVE BeforeUnknownEnemy(_)
BeforeUnknownEnemy(enemyStates) ==
    IF enemyStates = << >> \/ ~HasEnemyConfig(Head(enemyStates).typeId)
    THEN << >>
    ELSE <<Head(enemyStates)>> \o BeforeUnknownEnemy(Tail(enemyStates))

\* variant of updateEnemies whose second loop ends at an entry of unknown type
UpdateEnemiesAbortAtUnknown(es, enemyStates) ==
    ApplyEnemyStates(RemoveAbsent(es, enemyStates), BeforeUnknownEnemy(enemyStates))

\* variant of updateEnemies whose second loop stops after the first entry
UpdateEnemiesFirstOnly(es, enemyStates) ==
    ApplyEnemyStates(RemoveAbsent(es, enemyStates),
                     SubSeq(enemyStates, 1, Min(1, Len(enemyStates))))

\* Game.updateEnemies(enemyStates)
UpdateEnemies(es, enemyStates) ==
    ApplyEnemyStates(RemoveAbsent(es, enemyStates), enemyStates)

\* Game.createEffect + the position computed in Game.updateEffects
CreateEffect(effectState) ==
    LET worldX == (effectState.x * WORLD_WIDTH) \div PERMILLE
        yPercent == BaseYPercent + VFX_TYPES[effectState.type].yOffsetPercent
        fixedY == (InnerHeight * yPercent) \div 100
    IN  NewEffect(effectState.id, effectState.type, worldX, fixedY)

\* variant of the loop body that never creates an effect
SpawnNever(effs, existingEffectIds, effectState) == effs

\* Game.updateEffects, loop body; existingEffectIds is computed once, before the loop
SpawnIfNew(effs, existingEffectIds, effectState) ==
    IF effectState.id \notin existingEffectIds
       /\ HasVFXWithMetadata(effectState.type)
    THEN Append(effs, CreateEffect(effectState))
    ELSE effs

RECURSIVE ApplyEffectStates(_, _, _)
ApplyEffectStates(effs, existingEffectIds, effectStates) ==
    IF effectStates = << >> THEN effs
    ELSE ApplyEffectStates(SpawnIfNew(effs, existingEffectIds, Head(effectStates)),
                           existingEffectIds, Tail(effectStates))

\* the entries before the first one whose type has no VFX metadata
RECURSIVE BeforeUnknownEffect(_)
BeforeUnknownEffect(effectStates) ==
    IF effectStates = << >> \/ ~HasVFXMetadata(Head(effectStates).type)
    THEN << >>
    ELSE <<Head(effectStates)>> \o BeforeUnknownEffect(Tail(effectStates))

\* variant of updateEffects whose loop ends at an entry without VFX metadata
UpdateEffectsAbortAtUnknown(effs, effectStates) ==
    ApplyEffectStates(effs, IdsOf(effs), BeforeUnknownEffect(effectStates))

\* variant of updateEffects that restarts the effects the snapshot lists again
UpdateEffectsRestarts(effs, effectStates) ==
    ApplyEffectStates([ i \in DOMAIN effs |->
                          IF effs[i].id \in IdsOf(effectStates)
                          THEN EffectReset(effs[i]) ELSE effs[i] ],
                      IdsOf(effs), effectStates)

\* Game.updateEffects(effectStates)
UpdateEffects(effs, effectStates) ==
    ApplyEffectStates(effs, IdsOf(effs), effectStates)

CountId(effs, id) == Cardinality({ i \in DOMAIN effs : effs[i].id = id })

\* Game.updateGameState(state): the fields it assigns
UpdateGameStateFields(state) ==
    /\ player' = IF state.playerHP.defined
                 THEN PlayerUpdateHP(player, state.playerHP.value, PlayerMaxHP)
                 ELSE player
    /\ wizard' = IF state.playerHP.defined
                 THEN UpdateWitchHP(wizard, state.playerHP.value, PlayerMaxHP,
                                    state.playerHP.value <= 0)
                 ELSE wizard
    /\ enemies' = UpdateEnemies(enemies, state.enemies)
    /\ activeEffects' = UpdateEffects(activeEffects, state.effects)
    /\ created' = [ id \in DOMAIN created |->
                      created[id] + CountId(activeEffects', id)
                                  - CountId(activeEffects, id) ]

\* Game.updateGameState(state): what it does to the game
UpdateGameStateBody(state) ==
    /\ UpdateGameStateFields(state)
    /\ UNCHANGED <<isRunning, raf, drawn, swept, cursorVars, camera, objVars, mainVars>>

\* Game.updateGameState(state)
UpdateGameState(state) ==
    /\ UpdateGameStateBody(state)
    /\ lastOp' = [op |-> "updateGameState", args |-> << >>]

\* Game.updateGameState(state), the history keeping the snapshot and the enemy
\* clocks it met
UpdateGameStateLogged(state) ==
    /\ UpdateGameStateBody(state)
    /\ lastOp' = [op |-> "updateGameState", args |-> <<state>>,
                  prev |-> [ id \in DOMAIN enemies |-> ClockOf(enemies[id]) ]]

(***************************************************************************)
(* What one draw call puts on the canvas                                   *)
(***************************************************************************)
CULL_MARGIN == 200

\* the test on screenPos.x that Enemy.draw and Effect.draw make before drawing
OutsideScreen(cam, pos) ==
    pos.x < 0 - CULL_MARGIN \/ pos.x > cam.viewportWidth + CULL_MARGIN

\* variant of Enemy.draw that draws nothing when there is no image
EnemyDrawNoPlaceholder(e, cam, hasImage) ==
    { IF OutsideScreen(cam, pos) THEN "culled"
      ELSE IF ~hasImage THEN "nothing"
      ELSE "sprite" : pos \in WorldToScreen(cam, e.x, e.y) }

\* Enemy.draw(ctx, camera): hasImage tells whether getImageByPath returned an image
EnemyDraw(e, cam, hasImage) ==
    { IF OutsideScreen(cam, pos) THEN "culled"
      ELSE IF ~hasImage THEN "placeholder"
      ELSE "sprite" : pos \in WorldToScreen(cam, e.x, e.y) }

\* Effect.draw(ctx, camera): complete is this.image.complete
EffectDraw(e, cam, complete) ==
    IF ~complete THEN {"nothing"}
    ELSE { IF OutsideScreen(cam, pos) THEN "culled" ELSE "sprite" :
             pos \in WorldToScreen(cam, e.worldX, e.y) }

\* the draw calls of Game.render, in order: every enemy, every active effect,
\* the gaze cursor, the UI.  An active effect holds the image createEffect got
\* from the loader, which stores an image in its onload only.
RenderDraws(es, effs, cam, hasImage) ==
    { [ enemies |-> f, effects |-> g, cursor |-> TRUE, ui |-> TRUE ] :
        f \in { h \in [ DOMAIN es -> {"culled", "placeholder", "sprite", "nothing"} ] :
                  \A id \in DOMAIN es : h[id] \in EnemyDraw(es[id], cam, hasImage) },
        g \in { h \in [ DOMAIN effs -> {"culled", "sprite", "nothing"} ] :
                  \A i \in DOMAIN effs : h[i] \in EffectDraw(effs[i], cam, TRUE) } }

(***************************************************************************)
(* Game: the render loop                                                   *)
(***************************************************************************)
\* Game.updateAnimations(deltaTime)
UpdateAnimations(deltaTime) ==
    /\ gazeCursor' \in CursorUpdate(gazeCursor)
    /\ player' = PlayerUpdate(player, deltaTime)
    /\ enemies' = [ id \in DOMAIN enemies |-> UpdateAnimation(enemies[id], deltaTime) ]
    /\ LET updated == [ i \in DOMAIN activeEffects |->
                         EffectUpdate(activeEffects[i], deltaTime) ]
       IN  /\ activeEffects' = SelectSeq(updated, LAMBDA e : ~IsComplete(e))
           /\ swept' = SelectSeq(updated, IsComplete)

\* variant of render that also draws the effects removed in this tick
RenderWithSwept(deltaTime) ==
    /\ wizard' = UpdateWizardAnimation(wizard, deltaTime)
    /\ drawn' = [ enemies |-> DOMAIN enemies', effects |-> swept' \o activeEffects' ]

\* Game.render(deltaTime): the wizard clock advanced by redrawBackground, then the
\* draw calls made on the enemies and on the effects still in the active list
Render(deltaTime) ==
    /\ wizard' = UpdateWizardAnimation(wizard, deltaTime)
    /\ drawn' = [ enemies |-> DOMAIN enemies', effects |-> activeEffects' ]

\* one tick of Game.gameLoop: updateAnimations, then render
GameLoopTick(deltaTime) ==
    /\ player.currentFrame < MaxPlayerFrame
    /\ UpdateAnimations(deltaTime)
    /\ Render(deltaTime)
    /\ cursorHist' = [ cursorHist EXCEPT !.n = @ + 1, !.total = @ + 1 ]

\* whether the enemy's type has a sprite configuration for its label;
\* updateFromServer stores whatever label the server sends
HasSprite(e) == e.animationState \in DOMAIN ENEMY_TYPES[e.typeId].sprites
ThrowsOnUpdate(es) == \E id \in DOMAIN es : ~HasSprite(es[id])

\* one tick of Game.gameLoop in which enemy.updateAnimation throws a TypeError
\* on spriteConfig.frameDuration: the cursor and the player have been updated,
\* so have the enemies the Map holds before the thrower, the thrower's timer
\* has been advanced; the effects are not updated and nothing is rendered
GameLoopThrows(deltaTime) ==
    /\ player.currentFrame < MaxPlayerFrame
    /\ gazeCursor' \in CursorUpdate(gazeCursor)
    /\ player' = PlayerUpdate(player, deltaTime)
    /\ \E thrower \in { id \in DOMAIN enemies : ~HasSprite(enemies[id]) },
          before \in SUBSET { id \in DOMAIN enemies : HasSprite(enemies[id]) } :
         enemies' = [ id \in DOMAIN enemies |->
                        IF id = thrower
                        THEN [ enemies[id] EXCEPT !.frameTimer = @ + deltaTime ]
                        ELSE IF id \in before
                        THEN UpdateAnimation(enemies[id], deltaTime)
                        ELSE enemies[id] ]
    /\ cursorHist' = [ cursorHist EXCEPT !.n = @ + 1, !.total = @ + 1 ]
    /\ UNCHANGED <<activeEffects, wizard, drawn, swept, created, camera, objVars,
                   mainVars>>

\* body of Game.gameLoop after the isRunning test
GameLoopBody(deltaTime) ==
    /\ GameLoopTick(deltaTime)
    /\ UNCHANGED <<camera, objVars, created, mainVars>>

\* variant of gameLoop without the isRunning test
GameLoopIgnoresStop(deltaTime) ==
    /\ raf > 0
    /\ GameLoopBody(deltaTime)
    /\ lastOp' = [op |-> "gameLoop", args |-> <<deltaTime>>]
    /\ UNCHANGED <<isRunning, raf>>

\* Game.gameLoop, as the frame callback: it returns at once when the game is
\* stopped, otherwise it ticks and hands itself to requestAnimationFrame again
GameLoop(deltaTime) ==
    /\ raf > 0
    /\ IF isRunning
       THEN IF ThrowsOnUpdate(enemies)
            THEN /\ GameLoopThrows(deltaTime)
                 /\ raf' = raf - 1
                 /\ lastOp' = [op |-> "gameLoop.throw", args |-> <<deltaTime>>]
                 /\ UNCHANGED isRunning
            ELSE /\ GameLoopBody(deltaTime)
                 /\ \E frame \in RenderDraws(enemies', activeEffects', camera,
                                              HasImageByPath) :
                      lastOp' = [op |-> "gameLoop", args |-> <<deltaTime>>,
                                 frame |-> frame]
                 /\ UNCHANGED <<isRunning, raf>>
       ELSE /\ raf' = raf - 1
            /\ lastOp' = [op |-> "gameLoop.return", args |-> << >>]
            /\ UNCHANGED <<isRunning, enemies, activeEffects, player, wizard,
                           created, drawn, swept, cursorVars, camera, objVars,
                           mainVars>>

\* Game.start(): the first gameLoop call is made at once
Start ==
    /\ ~isRunning
    /\ isRunning' = TRUE
    /\ IF ThrowsOnUpdate(enemies)
       THEN /\ GameLoopThrows(0)
            /\ UNCHANGED raf
            /\ lastOp' = [op |-> "start.throw", args |-> << >>]
       ELSE /\ raf' = raf + 1
            /\ GameLoopBody(0)
            /\ lastOp' = [op |-> "start", args |-> << >>]

\* Game.stop()
Stop ==
    /\ isRunning' = FALSE
    /\ lastOp' = [op |-> "stop", args |-> << >>]
    /\ UNCHANGED <<raf, enemies, activeEffects, player, wizard, created, drawn, swept,
                   cursorVars, camera, objVars, mainVars>>

(***************************************************************************)
(* main.ts: processServerData                                              *)
(***************************************************************************)
GazeScale == WORLD_WIDTH    \* gaze_x is in units of 1/GazeScale, gaze_y in thousandths

NoGaze == [defined |-> FALSE, gaze_x |-> 0, gaze_y |-> 0]
NoGameState == [defined |-> FALSE]

\* worldX = gaze_x * WORLD_WIDTH
GazeWorldX(gaze) == (gaze.gaze_x * WORLD_WIDTH) \div GazeScale

\* processServerData, part 1: the gaze sample aims the cursor and is handed to
\* checkAndScrollCamera, evaluated at time t with outcome out
ProcessGaze(gaze, t, out) ==
    LET worldX == GazeWorldX(gaze)
        screenY == (gaze.gaze_y * InnerHeight) \div PERMILLE
        screenX == worldX - camera.offsetX
    IN  /\ gazeCursor' = SetTargetWithin(gazeCursor, Px(screenX), Px(screenY),
                                         Px(app.innerWidth), Px(InnerHeight))
        /\ cursorHist' = IF gazeCursor' = gazeCursor THEN cursorHist
                         ELSE [ cursorHist EXCEPT !.startX = gazeCursor.currentX,
                                                  !.n = 0 ]
        /\ out \in CheckAndScrollCamera(camera, edgeHoldStartTime, t, worldX)
        /\ camera' = out.camera
        /\ edgeHoldStartTime' = out.hold

\* the edge zone checkAndScrollCamera finds worldX in
ZoneOf(cam, worldX) ==
    IF IsInLeftZone(cam, worldX) THEN "left"
    ELSE IF IsInRightZone(cam, worldX) THEN "right" ELSE "none"

\* the zone found by the previous message, when that message evaluated a gaze
LastZone == IF lastOp.op = "processServerData" THEN lastOp.zone ELSE "none"

\* processServerData(response), called when Date.now() is t; waveNumber is
\* gameState.waveNumber, 0 when absent; the responses of the model carry no
\* gestureSequence or gestureMatched
ProcessServerDataWave(response, t, waveNumber) ==
    /\ IF response.gaze.defined
       THEN \E out \in CheckAndScrollCamera(camera, edgeHoldStartTime, t,
                                            GazeWorldX(response.gaze)) :
               /\ ProcessGaze(response.gaze, t, out)
               /\ lastOp' = [op |-> "processServerData", args |-> <<response>>,
                             evaluated |-> TRUE,
                             worldX |-> GazeWorldX(response.gaze),
                             speed |-> out.speed,
                             prevHold |-> edgeHoldStartTime,
                             prevOffset |-> camera.offsetX,
                             zone |-> ZoneOf(camera, GazeWorldX(response.gaze)),
                             prevZone |-> LastZone]
       ELSE /\ UNCHANGED <<cursorVars, camera, edgeHoldStartTime>>
            /\ lastOp' = [op |-> "processServerData", args |-> <<response>>,
                          evaluated |-> FALSE, worldX |-> 0, speed |-> 0,
                          prevHold |-> edgeHoldStartTime,
                          prevOffset |-> camera.offsetX,
                          zone |-> "none", prevZone |-> LastZone]
    /\ IF response.gameState.defined
       THEN UpdateGameStateFields(response.gameState.state)
       ELSE UNCHANGED <<player, wizard, enemies, activeEffects, created>>
    /\ isRunning' = IF response.type = "gameOver" THEN FALSE ELSE isRunning
    /\ app' = LET announced ==
                     IF /\ response.gameState.defined
                        /\ waveNumber > app.currentWave
                        /\ ~app.isShowingWaveAnnouncement
                     THEN [ app EXCEPT !.currentWave = waveNumber,
                                       !.isShowingWaveAnnouncement = @ \/ waveNumber > 1,
                                       !.announcing = @ \/ waveNumber > 1 ]
                     ELSE app
              IN  IF response.type = "gameOver"
                  THEN [ announced EXCEPT !.gameOverShown = TRUE ]
                  ELSE announced
    /\ UNCHANGED <<raf, drawn, swept, objVars, assets>>

\* a response without waveNumber
ProcessServerDataAt(response, t) == ProcessServerDataWave(response, t, 0)

\* a message handled elapsed milliseconds after the previous event
ProcessServerData(response, elapsed) ==
    /\ now + elapsed <= MaxNow
    /\ now' = now + elapsed
    /\ ProcessServerDataAt(response, now')
    /\ UNCHANGED netVars

(***************************************************************************)
(* Network: connect, the socket's events, the reconnect timeout            *)
(***************************************************************************)
\* initNetwork(): network.connect(), once
InitNetwork(throws) ==
    /\ ~netHist.started
    /\ LET r == Connect(network, [ netHist EXCEPT !.started = TRUE ], throws)
       IN  network' = r.network /\ netHist' = r.netHist
    /\ lastOp' = [op |-> "initNetwork", args |-> <<throws>>]
    /\ UNCHANGED <<gameVars, cursorVars, camera, objVars, edgeHoldStartTime, now, app, assets>>

\* ws.onopen
SocketOpen ==
    /\ network.ws = "CONNECTING"
    /\ network' = OnOpen(network)
    /\ netHist' = [ netHist EXCEPT !.connects = 0 ]
    /\ lastOp' = [op |-> "ws.onopen", args |-> << >>]
    /\ UNCHANGED <<gameVars, cursorVars, camera, objVars, edgeHoldStartTime, now, app, assets>>

\* ws.onmessage: the parsed message goes to processServerData
SocketMessage(response) ==
    /\ network.ws = "OPEN"
    /\ ProcessServerDataAt(response, now)
    /\ UNCHANGED <<now, netVars>>

\* variant of ws.onerror that stops the game
SocketErrorStopsGame ==
    /\ network.ws \in {"CONNECTING", "OPEN"}
    /\ isRunning' = FALSE
    /\ lastOp' = [op |-> "ws.onerror", args |-> << >>]
    /\ UNCHANGED <<raf, enemies, activeEffects, player, wizard, created, drawn, swept,
                   cursorVars, camera, objVars, mainVars>>

\* ws.onerror
SocketError ==
    /\ network.ws \in {"CONNECTING", "OPEN"}
    /\ lastOp' = [op |-> "ws.onerror", args |-> << >>]
    /\ UNCHANGED <<gameVars, cursorVars, camera, objVars, mainVars>>

\* ws.onclose of the current socket
SocketClose ==
    /\ network.ws \in {"CONNECTING", "OPEN"}
    /\ LET r == OnClose(network, netHist)
       IN  network' = r.network /\ netHist' = r.netHist
    /\ lastOp' = [op |-> "ws.onclose", args |-> << >>]
    /\ UNCHANGED <<gameVars, cursorVars, camera, objVars, edgeHoldStartTime, now, app, assets>>

\* ws.onclose of the socket that disconnect() closed and dropped
DroppedSocketClose ==
    /\ netHist.closing
    /\ LET r == IF ~network.isIntentionallyClosed
                THEN AttemptReconnect(network, netHist)
                ELSE [ network |-> network, netHist |-> netHist ]
       IN  /\ network' = r.network
           /\ netHist' = [ r.netHist EXCEPT !.closing = FALSE ]
    /\ lastOp' = [op |-> "ws.onclose", args |-> <<"dropped">>]
    /\ UNCHANGED <<gameVars, cursorVars, camera, objVars, edgeHoldStartTime, now, app, assets>>

\* the timeout set by attemptReconnect fires: this.connect()
ReconnectTimerFires(throws) ==
    /\ netHist.pending > 0
    /\ LET r == Connect(network,
                        [ netHist EXCEPT !.pending = @ - 1, !.connects = @ + 1 ],
                        throws)
       IN  network' = r.network /\ netHist' = r.netHist
    /\ lastOp' = [op |-> "reconnectTimer", args |-> <<throws>>]
    /\ UNCHANGED <<gameVars, cursorVars, camera, objVars, edgeHoldStartTime, now, app, assets>>

\* network.disconnect()
NetworkDisconnect ==
    /\ LET r == Disconnect(network, netHist)
       IN  network' = r.network /\ netHist' = r.netHist
    /\ lastOp' = [op |-> "disconnect", args |-> << >>]
    /\ UNCHANGED <<gameVars, cursorVars, camera, objVars, edgeHoldStartTime, now, app, assets>>

(***************************************************************************)
(* Initial state: the objects as main.ts constructs them                   *)
(***************************************************************************)
EffectIds == {"fx_1", "fx_2"}
EnemyIds == {"e1", "e2"}

InitObjects ==
    /\ isRunning = FALSE
    /\ raf = 0
    /\ enemies = << >>
    /\ activeEffects = << >>
    /\ player = NewPlayer
    /\ wizard = NewWizard
    /\ gazeCursor = NewGazeCursor(DefaultChaseSpeed,
                                  Px(InnerWidth) \div 2, Px(InnerHeight) \div 2)
    /\ camera = SetOffsetX(NewCamera(WORLD_WIDTH, InnerWidth, InnerHeight), 0)
    /\ en = NewEnemy("slime")
    /\ fx = NewEffect("fx_1", "lightningV2", 0, 0)
    /\ clock = [en |-> 0, fx |-> 0]
    /\ created = [ id \in EffectIds |-> 0 ]
    /\ drawn = [ enemies |-> {}, effects |-> << >> ]
    /\ swept = << >>
    /\ cursorHist = [ startX |-> Px(InnerWidth) \div 2, n |-> 0, total |-> 0 ]
    /\ lastOp = [op |-> "constructor", args |-> << >>]
    /\ edgeHoldStartTime = 0
    /\ now = StartTime
    /\ network = NewNetwork(ReconnectInterval, MaxReconnectAttempts)
    /\ netHist = [started |-> FALSE, pending |-> 0, delay |-> 0,
                  closing |-> FALSE, connects |-> 0]

\* the globals of main.ts and of the page: the phase, the flags and wave
\* counters, the width of the window and of the Renderer's canvases, and how
\* many Game and Network objects initializeGame has built so far
NewApp(phase, initialized) ==
    [ phase |-> phase, isGameInitialized |-> initialized, gameOverShown |-> FALSE,
      currentWave |-> 0, isShowingWaveAnnouncement |-> FALSE, announcing |-> FALSE,
      innerWidth |-> InnerWidth, canvasWidth |-> InnerWidth,
      games |-> IF initialized THEN 1 ELSE 0,
      networks |-> IF initialized THEN 1 ELSE 0 ]

\* the objects constructed by initializeGame, every image loaded
Init ==
    /\ InitObjects
    /\ app = NewApp("game", TRUE)
    /\ assets = [loadedImages |-> AssetOrder, pending |-> {}]

\* the page as init() leaves it at its await: loadAll has started every load;
\* the variables of the objects hold what their constructors will give them
InitPage ==
    /\ InitObjects
    /\ app = NewApp("loading", FALSE)
    /\ assets = [loadedImages |-> << >>, pending |-> AssetKeys]

(***************************************************************************)
(* Inputs                                                                  *)
(***************************************************************************)
SeqsUpTo(S, n) == UNION { [1..k -> S] : k \in 0..n }

NoHP == [defined |-> FALSE, value |-> 0]

\* authoritative payloads of an enemy entry (normalised x, y in thousandths)
Payload1 == [x |-> 500, y |-> 800, currentHP |-> 40, maxHP |-> 50, isDead |-> FALSE]
Payload2 == [x |-> 250, y |-> 500, currentHP |-> 20, maxHP |-> 60, isDead |-> FALSE]
Payload3 == [x |-> 250, y |-> 500, currentHP |-> 0, maxHP |-> 50, isDead |-> TRUE]

EnemyEntry(id, typeId, label, p) ==
    [ id |-> id, typeId |-> typeId, x |-> p.x, y |-> p.y,
      currentHP |-> p.currentHP, maxHP |-> p.maxHP,
      animationState |-> label, isDead |-> p.isDead ]

\* the type the server gives each id, and a type id the client does not know
ServerType == [e1 |-> "slime", e2 |-> "skeleton"]
UnknownEnemyType == "ghost"

\* what the server says of each enemy: walking, hurt (at two positions), dead
EnemyReports ==
    [ e1 |-> { <<"walk", Payload1>>, <<"hurt", Payload1>>, <<"hurt", Payload2>>,
               <<"death", Payload3>> },
      e2 |-> { <<"walk", Payload1>>, <<"hurt", Payload2>> } ]

EnemyEntries ==
    UNION { { EnemyEntry(id, ServerType[id], r[1], r[2]) : r \in EnemyReports[id] } :
              id \in EnemyIds }
    \cup { EnemyEntry("e1", UnknownEnemyType, "walk", Payload1) }

EffectEntries ==
    { [id |-> id, type |-> "lightningV2", x |-> 500] : id \in EffectIds }
    \cup { [id |-> "fx_1", type |-> "noSuchVfx", x |-> 500] }

EnemySnapshots ==
    { [enemies |-> es, effects |-> << >>, playerHP |-> NoHP] :
        es \in SeqsUpTo(EnemyEntries, MaxSnapshotLen) }

EffectSnapshots ==
    { [enemies |-> << >>, effects |-> fs, playerHP |-> NoHP] :
        fs \in SeqsUpTo(EffectEntries, MaxSnapshotLen) }

\* elapsed times between two frame callbacks, in ms
EnemyDeltas == {150}
EffectDeltas == {80}

(***************************************************************************)
(* Specifications                                                          *)
(***************************************************************************)
\* enemies: snapshots that carry enemy lists, and render ticks
NextEnemies ==
    \/ Start
    \/ \E state \in EnemySnapshots : UpdateGameState(state)
    \/ \E deltaTime \in EnemyDeltas : GameLoop(deltaTime)

SpecEnemies == Init /\ [][NextEnemies]_vars

\* effects: snapshots that carry effect lists, and render ticks
NextEffects ==
    \/ Start
    \/ \E state \in EffectSnapshots : UpdateGameState(state)
    \/ \E deltaTime \in EffectDeltas : GameLoop(deltaTime)

SpecEffects == Init /\ [][NextEffects]_vars

(***************************************************************************)
(* Class-level operations on one Enemy and one Effect object               *)
(***************************************************************************)
FxClockOf(e) == [frame |-> e.currentFrame, timer |-> e.elapsedTime,
                 finished |-> e.isFinished]

\* new Enemy(id, config, assetLoader)
EnemyConstruct(typeId) ==
    /\ en' = NewEnemy(typeId)
    /\ clock' = [clock EXCEPT !.en = 0]
    /\ lastOp' = [op |-> "Enemy.constructor", args |-> <<typeId>>]
    /\ UNCHANGED <<fx, gameVars, cursorVars, camera, mainVars>>

\* enemy.updateFromServer(data)
EnemyUpdateFromServer(data) ==
    /\ en' = UpdateFromServer(en, data)
    /\ clock' = [clock EXCEPT !.en = IF en.animationState # data.animationState
                                     THEN 0 ELSE @]
    /\ lastOp' = [op |-> "Enemy.updateFromServer", args |-> <<data>>,
                  prev |-> ClockOf(en)]
    /\ UNCHANGED <<fx, gameVars, cursorVars, camera, mainVars>>

\* enemy.updateAnimation(deltaTime)
EnemyUpdateAnimation(deltaTime) ==
    /\ clock.en + deltaTime <= MaxClock
    /\ en' = UpdateAnimation(en, deltaTime)
    /\ clock' = [clock EXCEPT !.en = @ + deltaTime]
    /\ lastOp' = [op |-> "Enemy.updateAnimation", args |-> <<deltaTime>>,
                  prev |-> ClockOf(en)]
    /\ UNCHANGED <<fx, gameVars, cursorVars, camera, mainVars>>

\* new Effect(worldX, y, image, metadata)
EffectConstruct(type) ==
    /\ fx' = NewEffect("fx_1", type, 0, 0)
    /\ clock' = [clock EXCEPT !.fx = 0]
    /\ lastOp' = [op |-> "Effect.constructor", args |-> <<type>>]
    /\ UNCHANGED <<en, gameVars, cursorVars, camera, mainVars>>

\* effect.update(deltaTime)
EffectUpdateStep(deltaTime) ==
    /\ clock.fx + deltaTime <= MaxClock
    /\ fx' = EffectUpdate(fx, deltaTime)
    /\ clock' = [clock EXCEPT !.fx = @ + deltaTime]
    /\ lastOp' = [op |-> "Effect.update", args |-> <<deltaTime>>,
                  prev |-> FxClockOf(fx)]
    /\ UNCHANGED <<en, gameVars, cursorVars, camera, mainVars>>

\* effect.reset()
EffectResetStep ==
    /\ fx' = EffectReset(fx)
    /\ clock' = [clock EXCEPT !.fx = 0]
    /\ lastOp' = [op |-> "Effect.reset", args |-> << >>, prev |-> FxClockOf(fx)]
    /\ UNCHANGED <<en, gameVars, cursorVars, camera, mainVars>>

ClockDeltas == {150, 1800}
ClockReports == { EnemyEntry("e1", "slime", r[1], r[2]) : r \in EnemyReports["e1"] }

\* the animation clocks of one Enemy and one Effect, driven by their owner
NextClocks ==
    \/ \E typeId \in DOMAIN ENEMY_TYPES : EnemyConstruct(typeId)
    \/ \E data \in ClockReports : EnemyUpdateFromServer(data)
    \/ \E deltaTime \in ClockDeltas : EnemyUpdateAnimation(deltaTime)
    \/ \E type \in DOMAIN VFX_TYPES : EffectConstruct(type)
    \/ \E deltaTime \in ClockDeltas : EffectUpdateStep(deltaTime)
    \/ EffectResetStep

SpecClocks == Init /\ [][NextClocks]_vars

(***************************************************************************)
(* Class-level operations on the Camera                                    *)
(***************************************************************************)
\* new Camera({worldWidth, viewportWidth, viewportHeight})
CameraConstruct(viewportWidth) ==
    /\ camera' = NewCamera(WORLD_WIDTH, viewportWidth, InnerHeight)
    /\ lastOp' = [op |-> "Camera.constructor", args |-> <<viewportWidth>>]
    /\ UNCHANGED <<gameVars, cursorVars, objVars, mainVars>>

\* camera.moveX(deltaX)
CameraMoveX(deltaX) ==
    /\ camera' = MoveX(camera, deltaX)
    /\ lastOp' = [op |-> "Camera.moveX", args |-> <<deltaX>>]
    /\ UNCHANGED <<gameVars, cursorVars, objVars, mainVars>>

\* camera.setOffsetX(offset)
CameraSetOffsetX(offset) ==
    /\ camera' = SetOffsetX(camera, offset)
    /\ lastOp' = [op |-> "Camera.setOffsetX", args |-> <<offset>>]
    /\ UNCHANGED <<gameVars, cursorVars, objVars, mainVars>>

\* camera.centerOnWorldX(worldX)
CameraCenterOnWorldX(worldX) ==
    /\ camera' = CenterOnWorldX(camera, worldX)
    /\ lastOp' = [op |-> "Camera.centerOnWorldX", args |-> <<worldX>>]
    /\ UNCHANGED <<gameVars, cursorVars, objVars, mainVars>>

\* camera.updateViewportSize(width, height)
CameraUpdateViewportSize(width) ==
    /\ camera' = UpdateViewportSize(camera, width, InnerHeight)
    /\ lastOp' = [op |-> "Camera.updateViewportSize", args |-> <<width>>]
    /\ UNCHANGED <<gameVars, cursorVars, objVars, mainVars>>

CameraDeltas == {-3000, -50, -10, 10, 50, 3000}
CameraOffsets == {-50, 0, 500, 948, 2000}
CameraWorldXs == {0, 1074, 2148}
ViewportWidths == {800, 1200, 2400}

NextCamera ==
    \/ \E viewportWidth \in ViewportWidths : CameraConstruct(viewportWidth)
    \/ \E deltaX \in CameraDeltas : CameraMoveX(deltaX)
    \/ \E offset \in CameraOffsets : CameraSetOffsetX(offset)
    \/ \E worldX \in CameraWorldXs : CameraCenterOnWorldX(worldX)
    \/ \E width \in ViewportWidths : CameraUpdateViewportSize(width)

SpecCamera == Init /\ [][NextCamera]_vars

(***************************************************************************)
(* Class-level operations on the GazeCursor                                *)
(***************************************************************************)
\* gazeCursor.setTarget(x, y)
CursorSetTarget(x, y) ==
    /\ gazeCursor' = SetTarget(gazeCursor, Px(x), Px(y))
    /\ cursorHist' = IF gazeCursor' = gazeCursor THEN cursorHist
                     ELSE [ cursorHist EXCEPT !.startX = gazeCursor.currentX, !.n = 0 ]
    /\ lastOp' = [op |-> "GazeCursor.setTarget", args |-> <<x, y>>]
    /\ UNCHANGED <<gameVars, camera, objVars, mainVars>>

\* gazeCursor.setPosition(x, y)
CursorSetPosition(x, y) ==
    /\ gazeCursor' = SetPosition(gazeCursor, Px(x), Px(y))
    /\ cursorHist' = [ cursorHist EXCEPT !.startX = Px(x), !.n = 0 ]
    /\ lastOp' = [op |-> "GazeCursor.setPosition", args |-> <<x, y>>]
    /\ UNCHANGED <<gameVars, camera, objVars, mainVars>>

\* gazeCursor.setChaseSpeed(speed), speed in 1/SpeedScale
CursorSetChaseSpeed(speed) ==
    /\ gazeCursor' = SetChaseSpeed(gazeCursor, speed)
    /\ lastOp' = [op |-> "GazeCursor.setChaseSpeed", args |-> <<speed>>]
    /\ UNCHANGED <<cursorHist, gameVars, camera, objVars, mainVars>>

\* gazeCursor.update()
CursorUpdateStep ==
    /\ cursorHist.total < MaxCursorUpdates
    /\ gazeCursor' \in CursorUpdate(gazeCursor)
    /\ cursorHist' = [ cursorHist EXCEPT !.n = @ + 1, !.total = @ + 1 ]
    /\ lastOp' = [op |-> "GazeCursor.update", args |-> << >>]
    /\ UNCHANGED <<gameVars, camera, objVars, mainVars>>

CursorTargets == { <<100, 100>>, <<1100, 700>> }
CursorPositions == { <<0, 0>>, <<1200, 800>> }
ChaseSpeeds == {-50, 8, 100, 150}

NextCursor ==
    \/ \E p \in CursorTargets : CursorSetTarget(p[1], p[2])
    \/ \E p \in CursorPositions : CursorSetPosition(p[1], p[2])
    \/ \E speed \in ChaseSpeeds : CursorSetChaseSpeed(speed)
    \/ CursorUpdateStep

SpecCursor == Init /\ [][NextCursor]_vars

(***************************************************************************)
(* The pointer inside the running game                                     *)
(***************************************************************************)
PointerDeltas == {16}

\* the render loop with the pointer placed and aimed from outside
NextPointer ==
    \/ Start
    \/ \E deltaTime \in PointerDeltas : GameLoop(deltaTime)
    \/ CursorSetPosition(0, 400)
    \/ CursorSetTarget(100, 400)

SpecPointer == Init /\ [][NextPointer]_vars

(***************************************************************************)
(* One enemy and one spell effect, end to end                              *)
(***************************************************************************)
HP(v) == [defined |-> TRUE, value |-> v]

\* e1 walking; then e1 hurt together with a fireSlash effect and a lower player HP
SnapWalk ==
    [ enemies |-> << EnemyEntry("e1", "slime", "walk", Payload1) >>,
      effects |-> << >>, playerHP |-> NoHP ]
SnapHurt ==
    [ enemies |-> << EnemyEntry("e1", "slime", "hurt", Payload1) >>,
      effects |-> << [id |-> "fx_1", type |-> "fireSlash", x |-> 500] >>,
      playerHP |-> HP(80) ]

EndToEndSnapshots == {SnapWalk, SnapHurt}
EndToEndDeltas == {80}

NextEndToEnd ==
    \/ Start
    \/ \E state \in EndToEndSnapshots : UpdateGameStateLogged(state)
    \/ \E deltaTime \in EndToEndDeltas : GameLoop(deltaTime)

SpecEndToEnd == Init /\ [][NextEndToEnd]_vars

(***************************************************************************)
(* Snapshots whose entries come in any order                               *)
(***************************************************************************)
OrderReports == { <<"walk", Payload1>>, <<"hurt", Payload2>> }

OrderEntries ==
    { EnemyEntry(id, ServerType[id], r[1], r[2]) : id \in EnemyIds, r \in OrderReports }
    \cup { EnemyEntry("e1", UnknownEnemyType, "walk", Payload1) }

OrderSnapshots ==
    { [enemies |-> es, effects |-> << >>, playerHP |-> NoHP] :
        es \in SeqsUpTo(OrderEntries, MaxSnapshotLen) }

NextReconcile ==
    \/ Start
    \/ \E state \in OrderSnapshots : UpdateGameState(state)
    \/ \E deltaTime \in EnemyDeltas : GameLoop(deltaTime)

SpecReconcile == Init /\ [][NextReconcile]_vars

(***************************************************************************)
(* The edge-scroll controller under a stream of gaze samples               *)
(***************************************************************************)
GazeAt(x) == [defined |-> TRUE, gaze_x |-> x, gaze_y |-> 500]

GazeResponse(x) == [gaze |-> GazeAt(x), gameState |-> NoGameState, type |-> "gaze"]

\* a message without a gaze sample
EmptyResponse == [gaze |-> NoGaze, gameState |-> NoGameState, type |-> "none"]

\* gaze samples: left of the viewport's first position, inside its left zone,
\* on the zone edges, in the middle, inside the right zone, right of the viewport
GazeXs == {0, 60, 120, 600, 1080, 1140, 2148}
GazeGaps == {100, 300}

NextScroll ==
    \/ \E x \in GazeXs, elapsed \in GazeGaps :
          ProcessServerData(GazeResponse(x), elapsed)
    \/ \E elapsed \in GazeGaps : ProcessServerData(EmptyResponse, elapsed)

SpecScroll == Init /\ [][NextScroll]_vars

(***************************************************************************)
(* main.ts and AssetLoader: startup                                        *)
(***************************************************************************)
\* variant of img.onload in which the first finished load lets init() go on
ImageLoadedFirstWins(key) ==
    /\ key \in assets.pending
    /\ assets' = [ loadedImages |-> Append(assets.loadedImages, key),
                   pending |-> assets.pending \ {key} ]
    /\ app' = IF app.phase = "loading"
              THEN [ app EXCEPT !.phase = "landing" ]
              ELSE app
    /\ lastOp' = [op |-> "img.onload", args |-> <<key>>]
    /\ UNCHANGED <<gameVars, cursorVars, camera, objVars, edgeHoldStartTime, now,
                   netVars>>

\* img.onload of one load of loadAll; the last one resolves Promise.all and
\* init() goes on to show the landing screen
ImageLoaded(key) ==
    /\ key \in assets.pending
    /\ assets' = [ loadedImages |-> Append(assets.loadedImages, key),
                   pending |-> assets.pending \ {key} ]
    /\ app' = IF app.phase = "loading" /\ assets'.pending = {}
              THEN [ app EXCEPT !.phase = "landing" ]
              ELSE app
    /\ lastOp' = [op |-> "img.onload", args |-> <<key>>]
    /\ UNCHANGED <<gameVars, cursorVars, camera, objVars, edgeHoldStartTime, now,
                   netVars>>

\* img.onerror of one load: Promise.all rejects, init() catches and gives up
ImageFailed(key) ==
    /\ key \in assets.pending
    /\ assets' = [ assets EXCEPT !.pending = @ \ {key} ]
    /\ app' = IF app.phase = "loading"
              THEN [ app EXCEPT !.phase = "failed" ]
              ELSE app
    /\ lastOp' = [op |-> "img.onerror", args |-> <<key>>]
    /\ UNCHANGED <<gameVars, cursorVars, camera, objVars, edgeHoldStartTime, now,
                   netVars>>

\* startGame(): the start button of the landing screen
StartGame ==
    /\ app.phase = "landing"
    /\ app' = [ app EXCEPT !.phase = "countdown" ]
    /\ lastOp' = [op |-> "startGame", args |-> << >>]
    /\ UNCHANGED <<gameVars, cursorVars, camera, objVars, edgeHoldStartTime, now,
                   netVars, assets>>

\* variant of initializeGame that opens the connection before it builds the renderer
InitializeGameConnectFirst(canvasFound, throws) ==
    /\ app.phase = "countdown"
    /\ LET r == Connect(network, [ netHist EXCEPT !.started = TRUE ], throws)
       IN  network' = r.network /\ netHist' = r.netHist
    /\ IF canvasFound
       THEN /\ isRunning' = TRUE
            /\ raf' = raf + 1
            /\ GameLoopTick(0)
            /\ app' = [ app EXCEPT !.phase = "game", !.isGameInitialized = TRUE ]
       ELSE /\ app' = [ app EXCEPT !.phase = "startFailed" ]
            /\ UNCHANGED <<gameVars, cursorVars>>
    /\ lastOp' = [op |-> "initializeGame", args |-> <<canvasFound, throws>>]
    /\ UNCHANGED <<camera, objVars, created, edgeHoldStartTime, now, assets>>

\* initializeGame(), the callback the CountdownScreen calls whenever one of its
\* countdowns completes.  canvasFound: whether the canvases of the Renderer
\* exist; throws: whether new WebSocket(url) throws; mediaDevices: whether
\* navigator.mediaDevices exists (it does not outside a secure context, and
\* startWebcam() then throws before the flag is set).  A run after the first
\* one replaces every object by a new one and starts the new Game.
InitializeGameWith(canvasFound, throws, mediaDevices) ==
    /\ app.phase = "countdown" \/ app.announcing
    /\ IF app.isGameInitialized
       THEN /\ app' = [ app EXCEPT !.announcing = FALSE ]
            /\ UNCHANGED <<gameVars, cursorVars, netVars, camera>>
       ELSE IF ~canvasFound
       THEN /\ app' = [ app EXCEPT !.phase = IF app.games = 0 THEN "startFailed" ELSE @,
                                   !.announcing = FALSE ]
            /\ camera' = SetOffsetX(NewCamera(WORLD_WIDTH, InnerWidth, InnerHeight), 0)
            /\ UNCHANGED <<gameVars, cursorVars, netVars>>
       ELSE /\ LET r == Connect(NewNetwork(ReconnectInterval, MaxReconnectAttempts),
                                [ netHist EXCEPT !.started = TRUE ], throws)
               IN  network' = r.network /\ netHist' = r.netHist
            /\ isRunning' = TRUE
            /\ raf' = raf + 1
            /\ IF app.games = 0
               THEN GameLoopTick(0) /\ UNCHANGED <<created, camera>>
               ELSE /\ enemies' = << >>
                    /\ activeEffects' = << >>
                    /\ player' = NewPlayer
                    /\ wizard' = NewWizard
                    /\ gazeCursor' = NewGazeCursor(DefaultChaseSpeed,
                                                   Px(InnerWidth) \div 2,
                                                   Px(InnerHeight) \div 2)
                    /\ camera' = SetOffsetX(NewCamera(WORLD_WIDTH, InnerWidth,
                                                      InnerHeight), 0)
                    /\ created' = [ id \in EffectIds |-> 0 ]
                    /\ drawn' = [ enemies |-> {}, effects |-> << >> ]
                    /\ swept' = << >>
                    /\ cursorHist' = [ startX |-> Px(InnerWidth) \div 2, n |-> 1,
                                       total |-> cursorHist.total + 1 ]
            /\ app' = [ app EXCEPT !.phase = "game",
                                   !.isGameInitialized = mediaDevices,
                                   !.announcing = FALSE,
                                   !.games = @ + 1,
                                   !.networks = @ + 1 ]
    /\ lastOp' = [op |-> "initializeGame", args |-> <<canvasFound, throws>>,
                  mediaDevices |-> mediaDevices]
    /\ UNCHANGED <<objVars, edgeHoldStartTime, now, assets>>

\* initializeGame() in a secure context
InitializeGame(canvasFound, throws) == InitializeGameWith(canvasFound, throws, TRUE)

(***************************************************************************)
(* The Network by itself: every operation and every socket event           *)
(***************************************************************************)
NetworkResponses == {EmptyResponse, GazeResponse(600), GazeResponse(2148)}

NextNetwork ==
    \/ \E throws \in BOOLEAN : InitNetwork(throws)
    \/ SocketOpen
    \/ \E response \in NetworkResponses : SocketMessage(response)
    \/ SocketError
    \/ SocketClose
    \/ \E throws \in BOOLEAN : ReconnectTimerFires(throws)
    \/ NetworkDisconnect
    \/ DroppedSocketClose

SpecNetwork == Init /\ [][NextNetwork]_vars

(***************************************************************************)
(* The running game fed by the Network                                     *)
(***************************************************************************)
SnapshotResponse(state) ==
    [gaze |-> NoGaze, gameState |-> [defined |-> TRUE, state |-> state],
     type |-> "gameState"]

GameOverResponse == [gaze |-> NoGaze, gameState |-> NoGameState, type |-> "gameOver"]

TransportResponses == {SnapshotResponse(SnapWalk), GameOverResponse}
TransportDeltas == {80}

\* game.start() as initializeGame calls it: once, before any tick has run
StartOnce == cursorHist.total = 0 /\ Start

\* the render loop and the socket of initNetwork; main.ts never calls disconnect()
NextTransport ==
    \/ StartOnce
    \/ \E deltaTime \in TransportDeltas : GameLoop(deltaTime)
    \/ \E throws \in BOOLEAN : InitNetwork(throws)
    \/ SocketOpen
    \/ \E response \in TransportResponses : SocketMessage(response)
    \/ SocketError
    \/ SocketClose
    \/ \E throws \in BOOLEAN : ReconnectTimerFires(throws)

SpecTransport == Init /\ [][NextTransport]_vars

(***************************************************************************)
(* The page from its load to the game over                                 *)
(***************************************************************************)
AppResponses == {SnapshotResponse(SnapWalk), GameOverResponse}
AppDeltas == {80}

NextApp ==
    \/ \E key \in AssetKeys : ImageLoaded(key)
    \/ \E key \in AssetKeys : ImageFailed(key)
    \/ StartGame
    \/ \E canvasFound \in BOOLEAN, throws \in BOOLEAN :
          InitializeGame(canvasFound, throws)
    \/ \E deltaTime \in AppDeltas : GameLoop(deltaTime)
    \/ SocketOpen
    \/ \E response \in AppResponses : SocketMessage(response)
    \/ SocketError
    \/ SocketClose
    \/ \E throws \in BOOLEAN : ReconnectTimerFires(throws)

SpecApp == InitPage /\ [][NextApp]_vars

(***************************************************************************)
(* The running game in a window that is resized                            *)
(***************************************************************************)
ResizeWidths == {800, InnerWidth, 1600}
ResizeGazeXs == {60, 600, 1140}
ResizeGaps == {300}

\* the resize event of the window: the listener of the Renderer runs
\* resizeCanvases(); the listeners of Player and CountdownScreen touch nothing
\* of the model; no listener calls camera.updateViewportSize
WindowResize(width) ==
    /\ width # app.innerWidth
    /\ app' = [ app EXCEPT !.innerWidth = width, !.canvasWidth = width ]
    /\ lastOp' = [op |-> "resize", args |-> <<width>>]
    /\ UNCHANGED <<gameVars, cursorVars, camera, objVars, edgeHoldStartTime, now,
                   netVars, assets>>

NextResize ==
    \/ \E width \in ResizeWidths : WindowResize(width)
    \/ \E x \in ResizeGazeXs, elapsed \in ResizeGaps :
          ProcessServerData(GazeResponse(x), elapsed)

SpecResize == Init /\ [][NextResize]_vars

(***************************************************************************)
(* The countdown screen reused for the wave announcements                  *)
(***************************************************************************)
\* the landing screen shown: loadAll has resolved, nothing else has happened
InitLanding ==
    /\ InitObjects
    /\ app = NewApp("landing", FALSE)
    /\ assets = [loadedImages |-> AssetOrder, pending |-> {}]

WaveNumbers == 1..MaxWave
WaveDeltas == {80}

\* a gameState message that carries waveNumber
WaveMessage(waveNumber) ==
    /\ network.ws = "OPEN"
    /\ ProcessServerDataWave(SnapshotResponse(SnapWalk), now, waveNumber)
    /\ UNCHANGED <<now, netVars>>

\* the 1500 ms timeout of processServerData that lowers isShowingWaveAnnouncement
WaveFlagTimer ==
    /\ app.isShowingWaveAnnouncement
    /\ app' = [ app EXCEPT !.isShowingWaveAnnouncement = FALSE ]
    /\ lastOp' = [op |-> "waveFlagTimer", args |-> << >>]
    /\ UNCHANGED <<gameVars, cursorVars, camera, objVars, edgeHoldStartTime, now,
                   netVars, assets>>

NextWaves ==
    \/ StartGame
    \/ \E canvasFound \in BOOLEAN, throws \in BOOLEAN, mediaDevices \in BOOLEAN :
          InitializeGameWith(canvasFound, throws, mediaDevices)
    \/ \E deltaTime \in WaveDeltas :
          cursorHist.total < MaxLoopTicks /\ GameLoop(deltaTime)
    \/ SocketOpen
    \/ \E waveNumber \in WaveNumbers : WaveMessage(waveNumber)
    \/ WaveFlagTimer

SpecWaves == InitLanding /\ [][NextWaves]_vars

(***************************************************************************)
(* Snapshots with entries of unknown type                                  *)
(***************************************************************************)
\* a slime, an entry of unknown type under the slime's id, one under a fresh id
SkipEnemyEntries ==
    { EnemyEntry("e1", "slime", "walk", Payload1),
      EnemyEntry("e1", UnknownEnemyType, "hurt", Payload2),
      EnemyEntry("e2", UnknownEnemyType, "walk", Payload1) }

\* a known effect and an entry without VFX metadata
SkipEffectEntries ==
    { [id |-> "fx_1", type |-> "fireSlash", x |-> 500],
      [id |-> "fx_2", type |-> "noSuchVfx", x |-> 500] }

\* every list of enemy entries with one list of effects, and every list of
\* effect entries with one list of enemies
SkipSnapshots ==
    { [enemies |-> es,
       effects |-> << [id |-> "fx_2", type |-> "noSuchVfx", x |-> 500],
                      [id |-> "fx_1", type |-> "fireSlash", x |-> 500] >>,
       playerHP |-> NoHP] : es \in SeqsUpTo(SkipEnemyEntries, MaxSnapshotLen) }
    \cup
    { [enemies |-> << EnemyEntry("e1", "slime", "walk", Payload1) >>,
       effects |-> fs,
       playerHP |-> NoHP] : fs \in SeqsUpTo(SkipEffectEntries, MaxSnapshotLen) }

\* snapshots only: the clocks of the shadows play no part here
NextSkip == \E state \in SkipSnapshots : UpdateGameStateLogged(state)

SpecSkip == Init /\ [][NextSkip]_vars

(***************************************************************************)
(* Class-level operations on the animation states of the wizard, the       *)
(* player and one enemy                                                    *)
(***************************************************************************)
WizardClockOf(w) == [label |-> w.wizardAnimationState,
                     frame |-> w.wizardCurrentFrame,
                     timer |-> w.wizardElapsedTime]
PlayerClockOf(p) == [label |-> p.animationState, frame |-> p.currentFrame,
                     timer |-> p.frameTimer]

\* the playerHP lines of updateGameState: player.updateHP, then updateWitchHP
PlayerHPStep(playerHP) ==
    /\ player' = PlayerUpdateHP(player, playerHP, PlayerMaxHP)
    /\ wizard' = UpdateWitchHP(wizard, playerHP, PlayerMaxHP, playerHP <= 0)
    /\ lastOp' = [op |-> "updateHP", args |-> <<playerHP>>,
                  wizardHurt |-> wizard'.wizardAnimationState = "hurt"
                                 /\ WizardClockOf(wizard') # WizardClockOf(wizard),
                  playerHurt |-> playerHP < player.currentHP]
    /\ UNCHANGED <<isRunning, raf, enemies, activeEffects, created, drawn,
                   swept, cursorVars, camera, objVars, mainVars>>

\* renderer.playAttackAnimation()
PlayAttackStep(attackType) ==
    /\ wizard' = PlayAttackAnimation(wizard, attackType)
    /\ lastOp' = [op |-> "playAttackAnimation", args |-> <<attackType>>,
                  started |-> wizard' # wizard]
    /\ UNCHANGED <<isRunning, raf, enemies, activeEffects, player, created, drawn,
                   swept, cursorVars, camera, objVars, mainVars>>

\* enemy.updateFromServer(data), the time fed to the clock not counted
EnemyRelabel(data) ==
    /\ en' = UpdateFromServer(en, data)
    /\ lastOp' = [op |-> "updateFromServer", args |-> <<data>>]
    /\ UNCHANGED <<fx, clock, gameVars, cursorVars, camera, mainVars>>

\* the animation updates of one frame: player.update and enemy.updateAnimation
\* from updateAnimations, updateWizardAnimation from render
AnimTick(deltaTime) ==
    /\ player.currentFrame < MaxPlayerFrame
    /\ player' = PlayerUpdate(player, deltaTime)
    /\ en' = UpdateAnimation(en, deltaTime)
    /\ wizard' = UpdateWizardAnimation(wizard, deltaTime)
    /\ lastOp' = [op |-> "tick", args |-> <<deltaTime>>,
                  prev |-> [wizard |-> WizardClockOf(wizard),
                            player |-> PlayerClockOf(player),
                            en |-> ClockOf(en)]]
    /\ UNCHANGED <<isRunning, raf, enemies, activeEffects, created, drawn,
                   swept, cursorVars, camera, fx, clock, mainVars>>

AnimDeltas == {100}
AnimHPs == {100, 60, 0}
AnimReports == { EnemyEntry("e1", "slime", "hurt", Payload1) }

AnimTicks == \E deltaTime \in AnimDeltas : AnimTick(deltaTime)

\* the three animation state machines, triggered by their owners and ticked
NextAnim ==
    \/ \E playerHP \in AnimHPs : PlayerHPStep(playerHP)
    \/ \E attackType \in {"attack", "attack2"} : PlayAttackStep(attackType)
    \/ \E data \in AnimReports : EnemyRelabel(data)
    \/ AnimTicks

\* every frame callback asks for the next one, so ticks keep coming
SpecAnim == Init /\ [][NextAnim]_vars /\ WF_vars(AnimTicks)

(***************************************************************************)
(* Class-level operations on the target of the GazeCursor                  *)
(***************************************************************************)
\* gazeCursor.setTarget(x, y), window.innerWidth and innerHeight as it reads them
CursorSetTargetIn(x, y, innerWidth, innerHeight) ==
    /\ gazeCursor' = SetTargetWithin(gazeCursor, Px(x), Px(y),
                                     Px(innerWidth), Px(innerHeight))
    /\ cursorHist' = IF gazeCursor' = gazeCursor THEN cursorHist
                     ELSE [ cursorHist EXCEPT !.startX = gazeCursor.currentX, !.n = 0 ]
    /\ lastOp' = [op |-> "GazeCursor.setTarget", args |-> <<x, y>>,
                  bounds |-> <<innerWidth, innerHeight>>]
    /\ UNCHANGED <<gameVars, camera, objVars, mainVars>>

\* gazeCursor.clampToBounds(canvasWidth, canvasHeight)
CursorClampToBounds(canvasWidth, canvasHeight) ==
    /\ gazeCursor' = ClampToBounds(gazeCursor, Px(canvasWidth), Px(canvasHeight))
    /\ cursorHist' = IF gazeCursor' = gazeCursor THEN cursorHist
                     ELSE [ cursorHist EXCEPT !.startX = gazeCursor.currentX, !.n = 0 ]
    /\ lastOp' = [op |-> "GazeCursor.clampToBounds", args |-> << >>,
                  bounds |-> <<canvasWidth, canvasHeight>>]
    /\ UNCHANGED <<gameVars, camera, objVars, mainVars>>

\* where the gaze may land, in whole pixels, and the sizes the window may have
ClampXs == {0 - 50, 0, 55, 600, 1145, 1200, 5000}
ClampYs == {0 - 50, 55, 400, 745, 5000}
WindowSizes == { <<InnerWidth, InnerHeight>>, <<2 * CursorRadius, 2 * CursorRadius>>,
                 <<100, 80>> }

NextClamp ==
    \/ \E x \in ClampXs, y \in ClampYs, w \in WindowSizes :
          CursorSetTargetIn(x, y, w[1], w[2])
    \/ \E w \in WindowSizes : CursorClampToBounds(w[1], w[2])

SpecClamp == Init /\ [][NextClamp]_vars

(***************************************************************************)
(* The Game drawing with a loader that may hold no image yet               *)
(***************************************************************************)
PayloadFar == [x |-> 900, y |-> 800, currentHP |-> 80, maxHP |-> 80, isDead |-> FALSE]

DrawEnemyLists ==
    { << >>,
      << EnemyEntry("e1", "slime", "walk", Payload1) >>,
      << EnemyEntry("e1", "slime", "hurt", Payload1),
         EnemyEntry("e2", "skeleton", "walk", PayloadFar) >>,
      << EnemyEntry("e2", "skeleton", "walk", Payload2),
         EnemyEntry("e1", "slime", "walk", Payload1) >> }
DrawEffectLists ==
    { << >>, << [id |-> "fx_1", type |-> "fireSlash", x |-> 500] >> }
DrawSnapshots ==
    { [enemies |-> es, effects |-> fs, playerHP |-> NoHP] :
        es \in DrawEnemyLists, fs \in DrawEffectLists }
DrawDeltas == {150}

\* loaders handed to the Game: nothing loaded, one VFX image loaded, all loaded
DrawLoaders ==
    { [loadedImages |-> q, pending |-> AssetKeys \ { q[i] : i \in DOMAIN q }] :
        q \in { << >>, << <<"vfx", "fireSlash">> >>, AssetOrder } }

InitDraw ==
    /\ InitObjects
    /\ app = NewApp("game", TRUE)
    /\ assets \in DrawLoaders

\* effect.draw(ctx, camera) on an Effect built by hand around any image
EffectDrawStep(complete) ==
    /\ \E mark \in EffectDraw(fx, camera, complete) :
         lastOp' = [op |-> "Effect.draw", args |-> <<complete>>, mark |-> mark]
    /\ UNCHANGED <<objVars, gameVars, cursorVars, camera, mainVars>>

NextDraw ==
    \/ StartOnce
    \/ \E state \in DrawSnapshots : UpdateGameStateLogged(state)
    \/ \E deltaTime \in DrawDeltas : GameLoop(deltaTime)
    \/ \E complete \in BOOLEAN : EffectDrawStep(complete)

SpecDraw == InitDraw /\ [][NextDraw]_vars

(***************************************************************************)
(* The running Game fed snapshots with malformed items                     *)
(***************************************************************************)
\* a label the server may send for which no enemy type has a sprite configuration
NoSpriteLabel == "attack"

MalformedEnemyLists ==
    { << >>,
      << EnemyEntry("e1", "slime", "walk", Payload1) >>,
      << EnemyEntry("e1", "slime", NoSpriteLabel, Payload1) >>,
      << EnemyEntry("e2", "skeleton", "walk", Payload2),
         EnemyEntry("e1", "slime", NoSpriteLabel, Payload1) >>,
      << EnemyEntry("e2", UnknownEnemyType, "walk", Payload2),
         EnemyEntry("e1", "slime", "hurt", Payload1) >> }
MalformedEffectLists ==
    { << >>,
      << [id |-> "fx_2", type |-> "noSuchVfx", x |-> 500],
         [id |-> "fx_1", type |-> "fireSlash", x |-> 500] >> }
MalformedSnapshots ==
    { [enemies |-> es, effects |-> fs, playerHP |-> NoHP] :
        es \in MalformedEnemyLists, fs \in MalformedEffectLists }
MalformedDeltas == {150}

NextMalformed ==
    \/ StartOnce
    \/ \E state \in MalformedSnapshots : UpdateGameStateLogged(state)
    \/ \E deltaTime \in MalformedDeltas : GameLoop(deltaTime)

SpecMalformed == Init /\ [][NextMalformed]_vars

(***************************************************************************)
(* The running Game fed snapshots in which an enemy comes and goes         *)
(***************************************************************************)
GapEnemyLists ==
    { << >>,
      << EnemyEntry("e1", "slime", "walk", Payload1) >>,
      << EnemyEntry("e1", "slime", "hurt", Payload1) >>,
      << EnemyEntry("e2", "skeleton", "walk", Payload2) >>,
      << EnemyEntry("e2", "skeleton", "walk", Payload2),
         EnemyEntry("e1", "slime", "walk", Payload1) >> }
GapSnapshots ==
    { [enemies |-> es, effects |-> << >>, playerHP |-> NoHP] : es \in GapEnemyLists }
GapDeltas == {80}

NextGap ==
    \/ StartOnce
    \/ \E state \in GapSnapshots : UpdateGameStateLogged(state)
    \/ \E deltaTime \in GapDeltas : GameLoop(deltaTime)

SpecGap == Init /\ [][NextGap]_vars

(***************************************************************************)
(* Game.start() and Game.stop() called freely around the frame callbacks   *)
(***************************************************************************)
ChainDeltas == {150}

\* game.start(), called while the game is stopped (it returns at once otherwise)
StartAgain == cursorHist.total < MaxLoopTicks /\ Start

NextChains ==
    \/ StartAgain
    \/ Stop
    \/ \E deltaTime \in ChainDeltas :
          cursorHist.total < MaxLoopTicks /\ GameLoop(deltaTime)

SpecChains == Init /\ [][NextChains]_vars

(***************************************************************************)
(* The Network connected and disconnected by its owner                     *)
(***************************************************************************)
\* network.connect(), called by an owner that holds no socket and awaits no retry
NetworkConnect(throws) ==
    /\ network.ws = "null"
    /\ netHist.pending = 0
    /\ LET r == Connect(network, [ netHist EXCEPT !.started = TRUE ], throws)
       IN  network' = r.network /\ netHist' = r.netHist
    /\ lastOp' = [op |-> "connect", args |-> <<throws>>]
    /\ UNCHANGED <<gameVars, cursorVars, camera, objVars, edgeHoldStartTime, now, app,
                   assets>>

NextDisconnect ==
    \/ \E throws \in BOOLEAN : NetworkConnect(throws)
    \/ SocketOpen
    \/ SocketError
    \/ SocketClose
    \/ DroppedSocketClose
    \/ \E throws \in BOOLEAN : ReconnectTimerFires(throws)
    \/ NetworkDisconnect

SpecDisconnect == Init /\ [][NextDisconnect]_vars

(***************************************************************************)
(* Properties of the snapshot reconciliation                               *)
(***************************************************************************)
\* C1: over any sequence of snapshots and render ticks, each server-assigned
\* effect id causes at most one Effect instance to be created.
C1_EffectCreatedAtMostOnce == \A id \in EffectIds : created[id] <= 1

\* C2: reconciling the enemy list twice in a row with the same snapshot leaves,
\* after the second call, the enemy map exactly as it was after the first call.
C2_ReconcileIdempotent ==
    \A state \in EnemySnapshots :
        LET once == UpdateEnemies(enemies, state.enemies)
        IN  UpdateEnemies(once, state.enemies) = once

\* a snapshot that removes one enemy, relabels the other (resetting its clock)
\* and is then applied a second time
C2_Witness ==
    \E state \in EnemySnapshots :
        LET once == UpdateEnemies(enemies, state.enemies)
        IN  /\ DOMAIN enemies = EnemyIds
            /\ DOMAIN once = {"e2"}
            /\ enemies["e2"].localCurrentFrame > 0
            /\ once["e2"].animationState # enemies["e2"].animationState
            /\ once["e2"].localCurrentFrame = 0
            /\ UpdateEnemies(once, state.enemies) = once

\* the ids of a snapshot's entries whose type is known
KnownIds(enemyStates) ==
    { enemyStates[i].id : i \in { j \in DOMAIN enemyStates :
                                    HasEnemyConfig(enemyStates[j].typeId) } }

\* C3 (as stated): after a reconcile call the local id set is exactly the set of
\* ids of the snapshot's entries whose type is known.
C3_IdsAreKnownSnapshotIds ==
    \A state \in EnemySnapshots :
        DOMAIN UpdateEnemies(enemies, state.enemies) = KnownIds(state.enemies)

\* C3: after a reconcile call every local enemy whose id is absent from the
\* snapshot is gone, and the local id set is exactly the ids of the snapshot
\* that already had a local enemy or have an entry of a known type.
C3_IdsAfterReconcile ==
    \A state \in EnemySnapshots :
        DOMAIN UpdateEnemies(enemies, state.enemies)
          = (IdsOf(state.enemies) \cap DOMAIN enemies) \cup KnownIds(state.enemies)

\* two local enemies, a snapshot that mentions one of them: the other is deleted
C3_Witness ==
    /\ DOMAIN enemies = EnemyIds
    /\ \E state \in EnemySnapshots :
         /\ IdsOf(state.enemies) = {"e1"}
         /\ DOMAIN UpdateEnemies(enemies, state.enemies) = {"e1"}

(***************************************************************************)
(* Properties of the animation clocks                                      *)
(***************************************************************************)
\* C4: an update whose label differs from the enemy's current label leaves the
\* enemy with the new label, frame index 0 and frame timer 0.
C4_LabelChangeResetsClock ==
    [][ (/\ lastOp'.op = "Enemy.updateFromServer"
         /\ lastOp'.args[1].animationState # en.animationState)
        => (/\ en'.animationState = lastOp'.args[1].animationState
            /\ en'.localCurrentFrame = 0
            /\ en'.frameTimer = 0) ]_vars

\* an enemy at walk frame 5 that has just received hurt
C4_Witness ==
    /\ lastOp.op = "Enemy.updateFromServer"
    /\ lastOp.prev.label = "walk"
    /\ lastOp.prev.frame = 5
    /\ lastOp.args[1].animationState = "hurt"
    /\ en.animationState = "hurt"
    /\ en.localCurrentFrame = 0
    /\ en.frameTimer = 0

\* C5: every whole frame duration fed to an animation since its clock was last
\* reset has been consumed: the timer is below frameDuration, a looping
\* animation is at frame (elapsed / frameDuration) mod frameCount and an
\* unfinished effect at frame elapsed / frameDuration.
C5_WholeFramesConsumed ==
    /\ en.animationState # "death" =>
         /\ en.frameTimer = clock.en % EnemySprite(en).frameDuration
         /\ en.localCurrentFrame =
              (clock.en \div EnemySprite(en).frameDuration) % EnemySprite(en).frameCount
    /\ ~fx.isFinished =>
         /\ fx.elapsedTime = clock.fx % VFX_TYPES[fx.type].frameDuration
         /\ fx.currentFrame = clock.fx \div VFX_TYPES[fx.type].frameDuration

NonLoopingWithinFrames ==
    /\ fx.currentFrame <= VFX_TYPES[fx.type].frameCount - 1
    /\ en.animationState = "death" =>
         en.localCurrentFrame <= EnemySprite(en).frameCount - 1

TerminalStays ==
    /\ (/\ lastOp'.op = "Effect.update"
        /\ fx.currentFrame = VFX_TYPES[fx.type].frameCount - 1)
       => fx'.currentFrame = fx.currentFrame
    /\ (lastOp'.op = "Effect.update" /\ fx.isFinished) => fx'.isFinished
    /\ (/\ lastOp'.op = "Enemy.updateAnimation"
        /\ en.animationState = "death"
        /\ en.localCurrentFrame = EnemySprite(en).frameCount - 1)
       => en'.localCurrentFrame = en.localCurrentFrame

\* C6: a non-looping animation (an Effect, an Enemy in the death state) never has
\* a frame index above frameCount - 1; once at its terminal frame an advance
\* leaves it there, and an advance never clears the finished flag.
C6_TerminalClamp == []NonLoopingWithinFrames /\ [][TerminalStays]_vars

\* an advance applied to an effect that was already finished, beside an enemy
\* resting on the last death frame
C6_Witness ==
    /\ lastOp.op = "Effect.update"
    /\ lastOp.prev.finished
    /\ fx.isFinished
    /\ fx.currentFrame = VFX_TYPES[fx.type].frameCount - 1
    /\ en.animationState = "death"
    /\ en.localCurrentFrame = EnemySprite(en).frameCount - 1

C7_OffsetWithinRange ==
    /\ 0 <= camera.offsetX
    /\ camera.offsetX <= Max(0, camera.worldWidth - camera.viewportWidth)
    /\ (lastOp.op = "Camera.setOffsetX" /\ camera.viewportWidth = 1200) =>
         /\ lastOp.args[1] = -50 => camera.offsetX = 0
         /\ lastOp.args[1] = 2000 => camera.offsetX = 948

\* setOffsetX(2000) on the 1200-wide viewport
C7_Witness ==
    /\ lastOp.op = "Camera.setOffsetX"
    /\ lastOp.args[1] = 2000
    /\ camera.viewportWidth = 1200
    /\ camera.offsetX = 948

Between(a, x, b) == (a <= x /\ x <= b) \/ (b <= x /\ x <= a)

\* C8: with a factor <= 1 and the target fixed, an advance moves the displayed
\* coordinate of each axis to a value between its previous value and the target.
C8_NoOvershoot ==
    [][ (lastOp'.op = "GazeCursor.update" /\ gazeCursor.chaseSpeed <= SpeedScale)
        => (/\ Between(gazeCursor.currentX, gazeCursor'.currentX, gazeCursor.targetX)
            /\ Between(gazeCursor.currentY, gazeCursor'.currentY, gazeCursor.targetY)) ]_vars

TickAdvancesPointer ==
    lastOp'.op \in {"start", "gameLoop"} => gazeCursor' \in CursorUpdate(gazeCursor)

Converging ==
    (/\ cursorHist.startX = 0
     /\ gazeCursor.targetX = Px(100)
     /\ gazeCursor.chaseSpeed = DefaultChaseSpeed) =>
        /\ gazeCursor.currentX <= Px(100)
        /\ cursorHist.n >= 50 => gazeCursor.currentX >= Px(98)

\* C9: every render tick advances the pointer, network message or not; with
\* factor 0.08, target 100 and the display starting at 0, the display never
\* exceeds 100 and is within 2% of 100 after 50 advances.
C9_PointerFreeRuns == []Converging /\ [][TickAdvancesPointer]_vars

\* fifty ticks after the pointer was placed at 0 and aimed at 100
C9_Witness ==
    /\ lastOp.op = "gameLoop"
    /\ cursorHist.startX = 0
    /\ cursorHist.n = 50
    /\ gazeCursor.targetX = Px(100)
    /\ gazeCursor.currentX >= Px(98)
    /\ gazeCursor.currentX < Px(100)

(***************************************************************************)
(* Properties of a snapshot followed by a tick                             *)
(***************************************************************************)
HurtAfterWalk(op) ==
    /\ op.op = "updateGameState"
    /\ op.args = <<SnapHurt>>
    /\ "e1" \in DOMAIN op.prev
    /\ op.prev["e1"].label = "walk"

SnapshotRelabelsAndSpawns ==
    (HurtAfterWalk(lastOp') /\ activeEffects = << >>) =>
        /\ enemies'["e1"].animationState = "hurt"
        /\ enemies'["e1"].localCurrentFrame = 0
        /\ enemies'["e1"].frameTimer = 0
        /\ Len(activeEffects') = 1
        /\ activeEffects'[1].id = "fx_1"
        /\ activeEffects'[1].type = "fireSlash"
        /\ activeEffects'[1].currentFrame = 0

NextTickDrawsBoth ==
    (/\ HurtAfterWalk(lastOp)
     /\ Len(activeEffects) = 1
     /\ activeEffects[1].currentFrame = 0
     /\ lastOp'.op \in {"start", "gameLoop"}) =>
        /\ "e1" \in drawn'.enemies
        /\ \E j \in DOMAIN drawn'.effects : drawn'.effects[j].id = "fx_1"

\* C11: a snapshot with e1 (slime) hurt and effect fx_1 (fireSlash), received
\* while e1 walks, leaves e1 hurt at frame 0 with timer 0 and exactly one active
\* effect, fx_1 at frame 0; the next render tick draws both.
C11_EndToEnd == [][SnapshotRelabelsAndSpawns /\ NextTickDrawsBoth]_vars

\* the hurt snapshot has just reached a running game whose e1 had walked on to a
\* later frame
C11_Witness ==
    /\ isRunning
    /\ HurtAfterWalk(lastOp)
    /\ lastOp.prev["e1"].frame > 0
    /\ enemies["e1"].animationState = "hurt"
    /\ enemies["e1"].localCurrentFrame = 0
    /\ enemies["e1"].frameTimer = 0
    /\ Len(activeEffects) = 1
    /\ activeEffects[1].id = "fx_1"
    /\ activeEffects[1].currentFrame = 0
    /\ player.animationState = "hurt"

(***************************************************************************)
(* Properties of the order of a snapshot's entries                         *)
(***************************************************************************)
\* the lists with the same entries as s, in every order
Perms(s) ==
    { [ i \in DOMAIN s |-> s[f[i]] ] :
        f \in { g \in [DOMAIN s -> DOMAIN s] :
                  \A i, j \in DOMAIN s : g[i] = g[j] => i = j } }

DistinctIds(enemyStates) == Cardinality(IdsOf(enemyStates)) = Len(enemyStates)

\* C12 (as stated): reconciling any two permutations of the same snapshot list
\* from the same local state gives the same enemy map.
C12_AnyOrderSameResult ==
    \A state \in OrderSnapshots :
        \A p \in Perms(state.enemies) :
            UpdateEnemies(enemies, p) = UpdateEnemies(enemies, state.enemies)

\* C12: reconciling any two permutations of a snapshot list in which every id
\* occurs once gives the same enemy map.
C12_AnyOrderOfDistinctIds ==
    \A state \in OrderSnapshots :
        DistinctIds(state.enemies) =>
            \A p \in Perms(state.enemies) :
                UpdateEnemies(enemies, p) = UpdateEnemies(enemies, state.enemies)

\* e2 alone and past its first frame; a two-entry snapshot creates e1 and
\* relabels e2, in either order
C12_Witness ==
    /\ DOMAIN enemies = {"e2"}
    /\ enemies["e2"].animationState = "walk"
    /\ enemies["e2"].localCurrentFrame > 0
    /\ \E state \in OrderSnapshots :
         /\ Len(state.enemies) = 2
         /\ state.enemies[1].id = "e1"
         /\ state.enemies[2].id = "e2"
         /\ state.enemies[2].animationState = "hurt"
         /\ LET swapped == << state.enemies[2], state.enemies[1] >>
                once == UpdateEnemies(enemies, state.enemies)
            IN  /\ swapped \in Perms(state.enemies)
                /\ UpdateEnemies(enemies, swapped) = once
                /\ DOMAIN once = EnemyIds
                /\ once["e2"].localCurrentFrame = 0

(***************************************************************************)
(* Properties of an update that keeps the label                            *)
(***************************************************************************)
\* C13: an update whose label equals the enemy's current label overwrites world
\* position, current and maximum HP and the death flag, and leaves the local
\* frame index and frame timer as they were.
C13_SameLabelKeepsClock ==
    [][ (/\ lastOp'.op = "Enemy.updateFromServer"
         /\ lastOp'.args[1].animationState = en.animationState)
        => (/\ en'.x = (lastOp'.args[1].x * WORLD_WIDTH) \div PERMILLE
            /\ en'.y = (lastOp'.args[1].y * InnerHeight) \div PERMILLE
            /\ en'.currentHP = lastOp'.args[1].currentHP
            /\ en'.maxHP = lastOp'.args[1].maxHP
            /\ en'.isDead = lastOp'.args[1].isDead
            /\ en'.animationState = en.animationState
            /\ en'.localCurrentFrame = en.localCurrentFrame
            /\ en'.frameTimer = en.frameTimer) ]_vars

\* a hurt enemy in mid-animation receives hurt again, with another position and HP
C13_Witness ==
    /\ lastOp.op = "Enemy.updateFromServer"
    /\ lastOp.prev.label = "hurt"
    /\ lastOp.prev.frame > 0
    /\ lastOp.prev.timer > 0
    /\ lastOp.args[1].animationState = "hurt"
    /\ lastOp.args[1].currentHP = Payload2.currentHP
    /\ en.currentHP = Payload2.currentHP
    /\ en.x = (Payload2.x * WORLD_WIDTH) \div PERMILLE
    /\ en.localCurrentFrame = lastOp.prev.frame
    /\ en.frameTimer = lastOp.prev.timer

(***************************************************************************)
(* Properties of the coordinate conversions                                *)
(***************************************************************************)
CameraPoints == { [x |-> 0, y |-> 0], [x |-> 92, y |-> 640], [x |-> 1074, y |-> 440],
                  [x |-> 2148, y |-> 800] }

Near(a, b, eps) == a - b <= eps /\ b - a <= eps

\* C14 (as stated): worldToScreen(x, y) is (x - offset, y) and screenToWorld is
\* its exact inverse in both directions, for every reachable offset and point.
C14_ExactInverse ==
    \A p \in CameraPoints :
        /\ \A sp \in WorldToScreen(camera, p.x, p.y) :
             /\ sp.y = p.y
             /\ \A w \in ScreenToWorld(camera, sp.x, sp.y) : w = p
        /\ \A w \in ScreenToWorld(camera, p.x, p.y) :
             \A sp \in WorldToScreen(camera, w.x, w.y) : sp = p

\* C14: the conversions never change the vertical coordinate; worldToScreen
\* gives x - offset and screenToWorld x + offset, each up to the rounding of
\* the one operation; a round trip is exact when the offset is 0 and otherwise
\* returns the horizontal coordinate up to the rounding of its two operations.
C14_InverseUpToRounding ==
    \A p \in CameraPoints :
        /\ \A sp \in WorldToScreen(camera, p.x, p.y) :
             /\ sp.y = p.y
             /\ Near(sp.x, p.x - camera.offsetX, 1)
             /\ \A w \in ScreenToWorld(camera, sp.x, sp.y) :
                  /\ w.y = p.y
                  /\ Near(w.x, p.x, 2)
                  /\ camera.offsetX = 0 => w = p
        /\ \A w \in ScreenToWorld(camera, p.x, p.y) :
             /\ w.y = p.y
             /\ Near(w.x, p.x + camera.offsetX, 1)
             /\ \A sp \in WorldToScreen(camera, w.x, w.y) :
                  /\ sp.y = p.y
                  /\ Near(sp.x, p.x, 2)
                  /\ camera.offsetX = 0 => sp = p

\* a scrolled camera for which one round trip of a point comes back moved
C14_Witness ==
    /\ lastOp.op = "Camera.moveX"
    /\ camera.offsetX > 0
    /\ \E p \in CameraPoints :
         \E sp \in WorldToScreen(camera, p.x, p.y) :
             \E w \in ScreenToWorld(camera, sp.x, sp.y) :
                 /\ w.x # p.x
                 /\ w.y = p.y

(***************************************************************************)
(* Properties of the edge-scroll controller                                *)
(***************************************************************************)
\* the step is an evaluation of checkAndScrollCamera
Evaluates == lastOp'.op = "processServerData" /\ lastOp'.evaluated

\* pointerWorldX lies in [offset, offset + margin]
InLeftBand(x) ==
    camera.offsetX <= x /\ 10 * x <= 10 * camera.offsetX + camera.viewportWidth

\* pointerWorldX lies in [offset + viewportWidth - margin, offset + viewportWidth]
InRightBand(x) ==
    /\ 10 * camera.offsetX + 9 * camera.viewportWidth <= 10 * x
    /\ x <= camera.offsetX + camera.viewportWidth

\* pointerWorldX lies left of offset + margin
LeftOfInnerEdge(x) == 10 * x < 10 * camera.offsetX + camera.viewportWidth

\* pointerWorldX lies right of offset + viewportWidth - margin
RightOfInnerEdge(x) == 10 * x > 10 * camera.offsetX + 9 * camera.viewportWidth

\* C15 as stated: the pointer is in a zone, and the hold timer is kept, exactly
\* when pointerWorldX lies in [offset, offset + margin] or in
\* [offset + viewportWidth - margin, offset + viewportWidth]; for every other
\* value, positions outside the viewport's world window included, the hold timer
\* is unset after the evaluation.
C15_ZonesEndAtViewport ==
    [][ Evaluates =>
          ( edgeHoldStartTime' # 0
              <=> InLeftBand(lastOp'.worldX) \/ InRightBand(lastOp'.worldX) ) ]_vars

\* C15 amended: the pointer is in the left zone exactly when pointerWorldX is
\* less than offset + margin and in the right zone exactly when it is greater
\* than offset + viewportWidth - margin, positions left or right of the
\* viewport's world window included; the hold timer is set after an evaluation
\* in a zone and unset after an evaluation between the two inner edges.
C15_ZonesAreHalfLines ==
    [][ Evaluates =>
          ( edgeHoldStartTime' # 0
              <=> LeftOfInnerEdge(lastOp'.worldX)
                    \/ RightOfInnerEdge(lastOp'.worldX) ) ]_vars

\* an evaluation right of the viewport's world window has started the hold timer
C15_Witness ==
    /\ lastOp.op = "processServerData" /\ lastOp.evaluated
    /\ lastOp.worldX > lastOp.prevOffset + camera.viewportWidth
    /\ lastOp.prevHold = 0
    /\ edgeHoldStartTime = now

\* C16: an evaluation with the pointer in neither zone leaves the hold timer
\* unset whatever it was, and a hold start is only ever recorded as the time of
\* the evaluation that finds the timer unset, so dwell from before an exit
\* never counts after re-entry.
C16_ExitUnsetsHold ==
    [][ Evaluates =>
          /\ ( ~LeftOfInnerEdge(lastOp'.worldX) /\ ~RightOfInnerEdge(lastOp'.worldX)
                 => edgeHoldStartTime' = 0 )
          /\ ( edgeHoldStartTime' # 0 =>
                 edgeHoldStartTime' = IF edgeHoldStartTime = 0 THEN now'
                                      ELSE edgeHoldStartTime ) ]_vars

\* the pointer left the zones in the middle of a dwell
C16_Witness ==
    /\ lastOp.op = "processServerData" /\ lastOp.evaluated
    /\ lastOp.prevHold # 0
    /\ now - lastOp.prevHold < EDGE_HOLD_THRESHOLD
    /\ edgeHoldStartTime = 0

\* C17: the camera offset changes only in an evaluation with the pointer in a
\* zone whose hold start was recorded by an earlier evaluation and lies at least
\* 300 ms back; the evaluation that records the hold start never scrolls, and
\* no evaluation outside the zones scrolls.
C17_ScrollOnlyAfterDwell ==
    [][ camera' # camera =>
          /\ Evaluates
          /\ LeftOfInnerEdge(lastOp'.worldX) \/ RightOfInnerEdge(lastOp'.worldX)
          /\ edgeHoldStartTime # 0
          /\ edgeHoldStartTime' = edgeHoldStartTime
          /\ now' - edgeHoldStartTime >= 300 ]_vars

\* the camera has scrolled after a dwell
C17_Witness ==
    /\ lastOp.op = "processServerData" /\ lastOp.evaluated
    /\ camera.offsetX # lastOp.prevOffset
    /\ now - edgeHoldStartTime >= 300

\* depths into a zone, in pixels
Depths == {0, 1, 40, 60, 119, 120, 121, 300}

\* depth of x inside the zone it is in, before the step
DepthOf(x) ==
    IF LeftOfInnerEdge(x)
    THEN camera.offsetX + ScrollMargin(camera) - x
    ELSE x - (camera.offsetX + camera.viewportWidth - ScrollMargin(camera))

\* the speed never decreases as the depth grows
SpeedNonDecreasing ==
    \A d1, d2 \in Depths :
        d1 <= d2 =>
            \A v1 \in ScrollSpeeds(d1, ScrollMargin(camera)) :
                \E v2 \in ScrollSpeeds(d2, ScrollMargin(camera)) : v1 <= v2

\* an evaluation that computed a speed: the speed is 10 + 40 * depth / margin
\* (depth capped at the margin) up to the rounding to whole pixels, lies in
\* 10..50, and the offset moves by it towards the zone, stopping at the clamp
SpeedLinearAndDirected ==
    Evaluates /\ lastOp'.speed # 0 =>
        LET x == lastOp'.worldX
            v == lastOp'.speed
            m == ScrollMargin(camera)
            exact == 10 * m + 40 * Min(DepthOf(x), m)
            maxOffset == Max(0, WORLD_WIDTH - camera.viewportWidth)
        IN  /\ 10 <= v /\ v <= 50
            /\ v * m > exact - m /\ v * m < exact + m
            /\ camera'.offsetX =
                 IF LeftOfInnerEdge(x)
                 THEN Max(0, camera.offsetX - v)
                 ELSE Min(maxOffset, camera.offsetX + v)
            /\ 0 <= camera'.offsetX /\ camera'.offsetX <= maxOffset

AttemptsBounded ==
    /\ netHist.connects <= MaxReconnectAttempts
    /\ network.reconnectAttempts <= MaxReconnectAttempts
    /\ netHist.pending <= 1
    /\ netHist.pending > 0 => netHist.delay = ReconnectInterval

\* every allowed reconnection has been made and has failed, nothing is pending
GaveUp ==
    /\ netHist.connects = MaxReconnectAttempts
    /\ netHist.pending = 0
    /\ network.ws \notin {"CONNECTING", "OPEN"}

\* a close not caused by disconnect() schedules one reconnection unless the
\* limit is reached
CloseSchedulesRetry ==
    lastOp'.op = "ws.onclose" /\ lastOp'.args = << >>
        /\ ~network.isIntentionallyClosed =>
            netHist'.pending =
                IF network.reconnectAttempts < MaxReconnectAttempts
                THEN netHist.pending + 1 ELSE netHist.pending

\* after giving up no connect is made and no message is handled
GaveUpForGood ==
    GaveUp => /\ GaveUp'
              /\ lastOp'.op \notin {"reconnectTimer", "processServerData", "ws.onopen"}

\* C19: after a loss of the connection not caused by disconnect() the Network
\* reconnects after the fixed delay reconnectInterval; the reconnections made
\* since the last successful open never exceed maxReconnectAttempts (5), and
\* once that many in a row have failed no further connection attempt is
\* scheduled and no further message is delivered.
C19_BoundedReconnect ==
    []AttemptsBounded /\ [][CloseSchedulesRetry /\ GaveUpForGood]_vars

\* the fifth reconnection in a row has just failed
C19_Witness ==
    /\ GaveUp
    /\ lastOp.op = "ws.onclose"
    /\ ~network.isIntentionallyClosed
    /\ network.reconnectAttempts = MaxReconnectAttempts
    /\ network.ws = "CLOSED"

TransportOps ==
    {"initNetwork", "ws.onopen", "ws.onerror", "ws.onclose", "reconnectTimer",
     "disconnect"}

\* a transport event leaves the game as it is
TransportLeavesGame ==
    lastOp'.op \in TransportOps => UNCHANGED <<gameVars, cursorVars, camera>>

\* a running game can take its next frame callback
TickEnabled ==
    isRunning /\ player.currentFrame < MaxPlayerFrame
        => \A deltaTime \in TransportDeltas : ENABLED GameLoop(deltaTime)

\* C20: no transport event (socket error, close, failed reconnection, exhausted
\* retries) stops the render loop or touches the game: isRunning stays true and
\* the frame callback stays enabled, animating the last received state from the
\* local clocks however many ticks pass without a snapshot.
C20_TransportKeepsLoop == []TickEnabled /\ [][TransportLeavesGame]_vars

\* after the Network gave up, a tick has animated and drawn the enemy of the
\* last snapshot
C20_Witness ==
    /\ GaveUp
    /\ ~network.isIntentionallyClosed
    /\ isRunning
    /\ lastOp.op = "gameLoop"
    /\ "e1" \in DOMAIN enemies
    /\ enemies["e1"].localCurrentFrame > 0
    /\ "e1" \in drawn.enemies

(***************************************************************************)
(* Properties of the game over                                             *)
(***************************************************************************)
\* the step handles a message of type "gameOver"
GameOverStep ==
    lastOp'.op = "processServerData" /\ lastOp'.args[1].type = "gameOver"

\* once the game-over screen is shown the game stays stopped and no step is a
\* tick: a frame callback still held by requestAnimationFrame returns without
\* touching the game and without being scheduled again
NoTickAfterGameOver ==
    app.gameOverShown =>
        /\ ~isRunning /\ ~isRunning'
        /\ app'.gameOverShown
        /\ lastOp'.op \notin {"gameLoop", "start", "initializeGame"}
        /\ drawn' = drawn /\ swept' = swept
        /\ raf' <= raf
        /\ lastOp'.op = "gameLoop.return" =>
              /\ raf' = raf - 1
              /\ UNCHANGED <<enemies, activeEffects, player, wizard, cursorVars>>

Reconciles == lastOp'.op = "updateGameState" /\ Len(lastOp'.args) = 1

UnknownEnemy(entry) == entry.typeId \notin DOMAIN ENEMY_TYPES
UnknownEffect(entry) == entry.type \notin DOMAIN VFX_TYPES

\* the entries of known type
KnownEnemies(list) == SelectSeq(list, LAMBDA entry : ~UnknownEnemy(entry))
KnownEffects(list) == SelectSeq(list, LAMBDA entry : ~UnknownEffect(entry))

\* entry i of unknown type meets no shadow under its id: none existed before the
\* snapshot and no earlier entry of the list created one
MeetsNoShadow(list, i) ==
    /\ UnknownEnemy(list[i])
    /\ list[i].id \notin DOMAIN enemies
    /\ \A j \in 1..(i - 1) : list[j].id = list[i].id => UnknownEnemy(list[j])

\* the list without the entries that meet no shadow
RECURSIVE DropFrom(_, _)
DropFrom(list, i) ==
    IF i > Len(list) THEN << >>
    ELSE (IF MeetsNoShadow(list, i) THEN << >> ELSE <<list[i]>>)
            \o DropFrom(list, i + 1)

\* C22 as stated: an enemy entry whose typeId is unknown is skipped, no shadow
\* is created for its id, and the other entries are created or updated exactly as
\* if the unknown entry were not in the snapshot; the effects are still processed.
C22_UnknownTypeAsIfAbsent ==
    [][ Reconciles =>
          /\ enemies' = UpdateEnemies(enemies, KnownEnemies(lastOp'.args[1].enemies))
          /\ activeEffects' = UpdateEffects(activeEffects, lastOp'.args[1].effects)
      ]_vars

\* C22 amended: an enemy entry of unknown type that meets no shadow under its id
\* is skipped: it creates none, and the other entries are created or updated
\* exactly as if it were not in the snapshot.  An entry of unknown type whose id
\* has a shadow, from before or from an earlier entry of the same snapshot, keeps
\* that shadow alive and updates it like any other entry.  The effects of the
\* snapshot are processed in either case.
C22_UnknownTypeSkippedWithoutShadow ==
    [][ Reconciles =>
          LET list == lastOp'.args[1].enemies
          IN  /\ enemies' = UpdateEnemies(enemies, DropFrom(list, 1))
              /\ \A i \in DOMAIN list :
                    MeetsNoShadow(list, i) /\ list[i].id \in DOMAIN enemies' =>
                        \E j \in DOMAIN list : /\ list[j].id = list[i].id
                                               /\ ~UnknownEnemy(list[j])
              /\ \A i \in DOMAIN list :
                    UnknownEnemy(list[i]) /\ list[i].id \in DOMAIN enemies =>
                        list[i].id \in DOMAIN enemies'
              /\ activeEffects' = UpdateEffects(activeEffects, lastOp'.args[1].effects)
      ]_vars

\* a snapshot listed an unknown type under a fresh id before the slime, and an
\* effect: the slime and the effect exist, the fresh id has no shadow
C22_Witness ==
    /\ lastOp.op = "updateGameState" /\ Len(lastOp.args) = 1
    /\ Len(lastOp.args[1].enemies) = 2
    /\ UnknownEnemy(lastOp.args[1].enemies[1])
    /\ lastOp.args[1].enemies[1].id = "e2"
    /\ DOMAIN lastOp.prev = {}
    /\ DOMAIN enemies = {"e1"}
    /\ Len(activeEffects) > 0

\* C23: an effect entry whose type has no VFX metadata is skipped: nothing is
\* appended to the active effect list for it, and the active list is exactly
\* what the snapshot without that entry gives, so every other entry is spawned
\* if its id is new.
C23_UnknownEffectSkipped ==
    [][ Reconciles =>
          LET list == lastOp'.args[1].effects
          IN  /\ activeEffects' = UpdateEffects(activeEffects, KnownEffects(list))
              /\ \A k \in DOMAIN activeEffects' : ~UnknownEffect(activeEffects'[k])
              /\ \A i \in DOMAIN list :
                    ~UnknownEffect(list[i]) =>
                        \E k \in DOMAIN activeEffects' :
                            activeEffects'[k].id = list[i].id
      ]_vars

\* a snapshot listed an entry without metadata before a known effect: only the
\* known effect was spawned
C23_Witness ==
    /\ lastOp.op = "updateGameState" /\ Len(lastOp.args) = 1
    /\ Len(lastOp.args[1].effects) = 2
    /\ UnknownEffect(lastOp.args[1].effects[1])
    /\ Len(activeEffects) = 1
    /\ activeEffects[1].id = "fx_1"
    /\ activeEffects[1].currentFrame = 0

(***************************************************************************)
(* Properties of the self-returning animation states                       *)
(***************************************************************************)
SelfReturning == {"hurt", "attack", "attack2"}
TickStep == lastOp'.op = "tick"
TickDelta == lastOp'.args[1]

\* the tick on which a clock's frame index reaches the frame count
ReachesCount(c, config, deltaTime) ==
    /\ c.timer + deltaTime >= config.frameDuration
    /\ c.frame + 1 >= config.frameCount

WizardEnds ==
    /\ TickStep
    /\ wizard.wizardAnimationState \in SelfReturning
    /\ ReachesCount(WizardClockOf(wizard),
                    WIZARD_SPRITES[wizard.wizardAnimationState], TickDelta)
PlayerEnds ==
    /\ TickStep
    /\ player.animationState = "hurt"
    /\ ReachesCount(PlayerClockOf(player), WIZARD_SPRITES.hurt, TickDelta)
EnemyEnds ==
    /\ TickStep
    /\ en.animationState = "hurt"
    /\ ReachesCount(ClockOf(en), EnemySprite(en), TickDelta)

WizardTriggered ==
    \/ lastOp.op = "updateHP" /\ lastOp.wizardHurt
    \/ lastOp.op = "playAttackAnimation" /\ lastOp.started
PlayerTriggered == lastOp.op = "updateHP" /\ lastOp.playerHurt
EnemyTriggered == lastOp.op = "updateFromServer"
TicksStopped == player.currentFrame >= MaxPlayerFrame

WizardReturns ==
    (wizard.wizardAnimationState \in SelfReturning)
        ~> (wizard.wizardAnimationState = "idle" \/ WizardTriggered \/ TicksStopped)
PlayerReturns ==
    (player.animationState = "hurt")
        ~> (player.animationState = "idle" \/ PlayerTriggered \/ TicksStopped)
EnemyReturns ==
    (en.animationState = "hurt")
        ~> (en.animationState # "hurt" \/ EnemyTriggered \/ TicksStopped)

NeverOnOrBeyondCount ==
    /\ wizard.wizardAnimationState \in SelfReturning
         => wizard.wizardCurrentFrame < WIZARD_SPRITES[wizard.wizardAnimationState].frameCount
    /\ player.animationState = "hurt"
         => player.currentFrame < WIZARD_SPRITES.hurt.frameCount

\* C24 as stated: whichever of the wizard, the player and an enemy is in hurt,
\* attack or attack2, the tick on which its frame index reaches the frame count
\* puts it in idle (for an enemy: out of hurt) with frame index 0 and its clock
\* at zero, and with no new trigger it gets there after finitely many ticks.
C24_SelfReturningResetsClock ==
    /\ [][ /\ WizardEnds => /\ wizard'.wizardAnimationState = "idle"
                             /\ wizard'.wizardCurrentFrame = 0
                             /\ wizard'.wizardElapsedTime = 0
           /\ PlayerEnds => /\ player'.animationState = "idle"
                             /\ player'.currentFrame = 0
                             /\ player'.frameTimer = 0
           /\ EnemyEnds => /\ en'.animationState # "hurt"
                            /\ en'.localCurrentFrame = 0
                            /\ en'.frameTimer = 0 ]_vars
    /\ WizardReturns /\ PlayerReturns /\ EnemyReturns

\* C24, amended: the wizard's hurt, attack and attack2 and the player's hurt end
\* by themselves: the tick on which the frame index reaches the frame count puts
\* the state at idle with frame index 0; the player's clock is then zero, the
\* wizard's keeps what it had accumulated beyond the frame duration. Neither is
\* ever seen on or beyond its last frame count, and with ticks coming and no new
\* trigger both are back in idle after finitely many ticks. An enemy's hurt does
\* not end by itself: ticks never change an enemy's label, and at the frame
\* count hurt starts again at frame 0.
C24_WizardAndPlayerReturnToIdle ==
    /\ [][ /\ WizardEnds =>
                 /\ wizard'.wizardAnimationState = "idle"
                 /\ wizard'.wizardCurrentFrame = 0
                 /\ wizard'.wizardElapsedTime =
                        wizard.wizardElapsedTime + TickDelta
                        - WIZARD_SPRITES[wizard.wizardAnimationState].frameDuration
           /\ PlayerEnds => /\ player'.animationState = "idle"
                             /\ player'.currentFrame = 0
                             /\ player'.frameTimer = 0
           /\ TickStep => en'.animationState = en.animationState
           /\ EnemyEnds => en'.localCurrentFrame = 0 ]_vars
    /\ []NeverOnOrBeyondCount
    /\ WizardReturns /\ PlayerReturns

\* the wizard has just come back from an attack with time left on its clock, the
\* player has come back from hurt
C24_Witness ==
    /\ lastOp.op = "tick"
    /\ lastOp.prev.wizard.label \in {"attack", "attack2"}
    /\ wizard.wizardAnimationState = "idle"
    /\ wizard.wizardCurrentFrame = 0
    /\ wizard.wizardElapsedTime > 0
    /\ player.animationState = "idle"
    /\ player.currentHP < PlayerMaxHP
    /\ en.animationState = "hurt"

(***************************************************************************)
(* Properties of the GazeCursor's target                                   *)
(***************************************************************************)
BoundsApplied == lastOp.op \in {"GazeCursor.setTarget", "GazeCursor.clampToBounds"}
BoundWidth == Px(lastOp.bounds[1])
BoundHeight == Px(lastOp.bounds[2])
TargetInside ==
    /\ gazeCursor.radius <= gazeCursor.targetX
    /\ gazeCursor.targetX <= BoundWidth - gazeCursor.radius
    /\ gazeCursor.radius <= gazeCursor.targetY
    /\ gazeCursor.targetY <= BoundHeight - gazeCursor.radius

\* C25 as stated: after setTarget(x, y), whatever x and y and whatever the size
\* of the bounding rectangle, radius <= targetX <= boundWidth - radius and
\* radius <= targetY <= boundHeight - radius.
C25_TargetAlwaysInside == BoundsApplied => TargetInside

\* C25, amended: after setTarget(x, y), for any x and y, the target is inside
\* the rectangle by the radius on every axis on which the rectangle is at least
\* two radii long; on an axis shorter than that the lower limit wins and the
\* target is the radius.
C25_TargetInsideWhenItFits ==
    BoundsApplied =>
        /\ IF BoundWidth >= 2 * gazeCursor.radius
           THEN /\ gazeCursor.radius <= gazeCursor.targetX
                /\ gazeCursor.targetX <= BoundWidth - gazeCursor.radius
           ELSE gazeCursor.targetX = gazeCursor.radius
        /\ IF BoundHeight >= 2 * gazeCursor.radius
           THEN /\ gazeCursor.radius <= gazeCursor.targetY
                /\ gazeCursor.targetY <= BoundHeight - gazeCursor.radius
           ELSE gazeCursor.targetY = gazeCursor.radius

\* a gaze left of and below the window has been clamped on both axes
C25_Witness ==
    /\ lastOp.op = "GazeCursor.setTarget"
    /\ lastOp.args = <<0 - 50, 5000>>
    /\ lastOp.bounds = <<InnerWidth, InnerHeight>>
    /\ gazeCursor.targetX = gazeCursor.radius
    /\ gazeCursor.targetY = Px(InnerHeight) - gazeCursor.radius

(***************************************************************************)
(* Properties of the startup                                               *)
(***************************************************************************)
NetworkUntouched ==
    /\ network = NewNetwork(ReconnectInterval, MaxReconnectAttempts)
    /\ ~netHist.started
    /\ netHist.connects = 0
LoopNeverStarted ==
    /\ ~isRunning
    /\ raf = 0
    /\ cursorHist.total = 0
    /\ drawn = [ enemies |-> {}, effects |-> << >> ]

\* C26: when a canvas of the Renderer is missing, initializeGame stops at the
\* constructor's throw: from then on the render loop has not been started, no
\* tick has run and no connection has been opened.
C26_MissingCanvasIsFatal ==
    app.phase = "startFailed" =>
        /\ LoopNeverStarted
        /\ NetworkUntouched
        /\ ~app.isGameInitialized

\* initializeGame has run without its canvases, after every image had loaded
C26_Witness ==
    /\ app.phase = "startFailed"
    /\ lastOp.op = "initializeGame"
    /\ lastOp.args[1] = FALSE
    /\ assets.pending = {}

AllLoaded ==
    /\ assets.pending = {}
    /\ \A key \in AssetKeys :
          \E i \in DOMAIN assets.loadedImages : assets.loadedImages[i] = key
TickRuns == cursorHist'.total > cursorHist.total
GameStarts == isRunning' /\ ~isRunning

\* C27: every load started by loadAll has finished, with its image stored,
\* before the start button can be pressed, before the game is started and
\* before any render tick runs.
C27_LoadBarrier ==
    [][ /\ TickRuns => AllLoaded
        /\ GameStarts => AllLoaded
        /\ app'.phase \in {"landing", "countdown", "game"} => AllLoaded' ]_vars

\* the game runs and has ticked, every image in the loader
C27_Witness ==
    /\ isRunning
    /\ cursorHist.total > 1
    /\ Len(assets.loadedImages) = Cardinality(AssetKeys)
    /\ lastOp.op = "gameLoop"

(***************************************************************************)
(* Properties of drawing without images                                    *)
(***************************************************************************)
FrameDrawn == lastOp.op = "gameLoop"
OnScreen(x) ==
    /\ x - camera.offsetX >= 0 - CULL_MARGIN
    /\ x - camera.offsetX <= camera.viewportWidth + CULL_MARGIN

\* every draw call of the frame has been made
DrawingContinues ==
    /\ DOMAIN lastOp.frame.enemies = DOMAIN enemies
    /\ DOMAIN lastOp.frame.effects = DOMAIN activeEffects
    /\ lastOp.frame.cursor
    /\ lastOp.frame.ui

EnemyPlaceholders ==
    \A id \in DOMAIN enemies :
        lastOp.frame.enemies[id] =
            IF ~OnScreen(enemies[id].x) THEN "culled"
            ELSE IF HasImageByPath THEN "sprite" ELSE "placeholder"

FrameCallbackRuns == raf > 0 /\ isRunning /\ lastOp'.op \in {"gameLoop", "gameLoop.throw"}

\* C29: whatever items the snapshots applied so far contained, a frame callback
\* of the running game completes its tick (animations updated, frame rendered)
\* and schedules the next callback; the running game always has one scheduled.
C29_MalformedItemNeverStopsLoop ==
    /\ [](isRunning /\ cursorHist.total > 0 => raf > 0)
    /\ [][FrameCallbackRuns => lastOp'.op = "gameLoop" /\ raf' > 0]_vars

\* the loop has died on a label without sprite configuration: the game is still
\* marked running and no frame callback is scheduled
C29_LoopDead ==
    /\ isRunning
    /\ raf = 0
    /\ lastOp.op = "gameLoop.throw"
    /\ "e1" \in DOMAIN enemies
    /\ enemies["e1"].animationState = NoSpriteLabel

(***************************************************************************)
(* Properties of an enemy that leaves the snapshots and comes back         *)
(***************************************************************************)
SnapshotApplied == lastOp'.op = "updateGameState"
AppliedEnemies == lastOp'.args[1].enemies
LastLabelOf(list, id) ==
    LET last == CHOOSE i \in DOMAIN list :
                  /\ list[i].id = id
                  /\ \A j \in DOMAIN list : list[j].id = id => j <= i
    IN  list[last].animationState

\* an id missing from a snapshot loses its shadow with that very snapshot
NoGraceWindow ==
    SnapshotApplied =>
        \A id \in DOMAIN enemies :
            id \notin IdsOf(AppliedEnemies) => id \notin DOMAIN enemies'

\* a shadow that did not exist before the snapshot starts from a zero clock
CreatedFromZero ==
    SnapshotApplied =>
        \A id \in (DOMAIN enemies') \ (DOMAIN enemies) :
            ClockOf(enemies'[id]) =
                [frame |-> 0, timer |-> 0, label |-> LastLabelOf(AppliedEnemies, id)]

\* C30: an enemy id missing from a snapshot is deleted at once, and when a later
\* snapshot lists it again the shadow is a new one, at frame 0 with no
\* accumulated time, whatever the clock of the deleted shadow was and even when
\* the label is the one it had before.
C30_NoGraceWindow == [][NoGraceWindow /\ CreatedFromZero]_vars

\* e1 was drawn walking in the last frame, a snapshot then dropped it, and the
\* snapshot just applied brought it back, walking, with its clock at zero
C30_Witness ==
    /\ lastOp.op = "updateGameState"
    /\ "e1" \in drawn.enemies
    /\ "e1" \notin DOMAIN lastOp.prev
    /\ "e1" \in DOMAIN enemies
    /\ ClockOf(enemies["e1"]) = [frame |-> 0, timer |-> 0, label |-> "walk"]
    /\ cursorHist.total > 2

(***************************************************************************)
(* Properties of the frame indices                                         *)
(***************************************************************************)
InFrames(frame, frameCount) == 0 <= frame /\ frame <= frameCount - 1

EnemyFramesInRange ==
    \A id \in DOMAIN enemies :
        LET count == EnemySprite(enemies[id]).frameCount
        IN  /\ InFrames(enemies[id].localCurrentFrame, count)
            /\ InFrames(count - 1 - enemies[id].localCurrentFrame, count)
EffectFramesInRange ==
    \A i \in DOMAIN activeEffects :
        InFrames(activeEffects[i].currentFrame,
                 VFX_TYPES[activeEffects[i].type].frameCount)
WizardFrameInRange ==
    InFrames(wizard.wizardCurrentFrame,
             WIZARD_SPRITES[wizard.wizardAnimationState].frameCount)
PlayerFrameInRange ==
    InFrames(player.currentFrame, WIZARD_SPRITES[player.animationState].frameCount)

\* C31: in every reachable state the frame index of every enemy, every effect,
\* the player and the wizard lies in 0 .. frameCount - 1 of its current
\* animation state, and so does the reversed index used for death playback.
C31_FrameIndexInRange ==
    EnemyFramesInRange /\ EffectFramesInRange /\ WizardFrameInRange
    /\ PlayerFrameInRange

\* the player, idle, stands on a frame index its sprite sheet does not have,
\* while every other animated object is in range
C31_PlayerBeyondLastFrame ==
    /\ player.animationState = "idle"
    /\ player.currentFrame >= WIZARD_SPRITES.idle.frameCount
    /\ EnemyFramesInRange /\ EffectFramesInRange /\ WizardFrameInRange
    /\ Len(activeEffects) > 0 /\ DOMAIN enemies # {}

(***************************************************************************)
(* Properties of the ownership of local state                              *)
(***************************************************************************)
Authoritative(e) ==
    [x |-> e.x, y |-> e.y, currentHP |-> e.currentHP, maxHP |-> e.maxHP,
     animationState |-> e.animationState, isDead |-> e.isDead]

TickLeavesEnemies ==
    lastOp'.op \in {"gameLoop", "start"} =>
        /\ DOMAIN enemies' = DOMAIN enemies
        /\ \A id \in DOMAIN enemies :
              Authoritative(enemies'[id]) = Authoritative(enemies[id])
SnapshotLeavesEffects ==
    lastOp'.op = "updateGameState" =>
        /\ Len(activeEffects') >= Len(activeEffects)
        /\ SubSeq(activeEffects', 1, Len(activeEffects)) = activeEffects
OnlyOwnersAddAndRemove ==
    /\ DOMAIN enemies' # DOMAIN enemies => lastOp'.op = "updateGameState"
    /\ Len(activeEffects') < Len(activeEffects) => lastOp'.op \in {"gameLoop", "start"}

\* C32: a render tick never adds or removes an enemy nor changes an enemy's
\* position, HP, label or death flag; a snapshot never removes an effect nor
\* changes an existing effect; enemies come and go only by snapshots, effects
\* go only by the tick's sweep.
C32_SplitOwnership ==
    [][TickLeavesEnemies /\ SnapshotLeavesEffects /\ OnlyOwnersAddAndRemove]_vars

\* a snapshot listing fx_1 again has just been applied while fx_1 was halfway
\* through its animation and e1 halfway through a frame
C32_Witness ==
    /\ lastOp.op = "updateGameState"
    /\ Len(lastOp.args[1].effects) > 0
    /\ Len(activeEffects) > 0
    /\ activeEffects[1].currentFrame > 0
    /\ "e1" \in DOMAIN enemies
    /\ enemies["e1"].frameTimer > 0

(***************************************************************************)
(* Properties of the frame-callback chains                                 *)
(***************************************************************************)
\* C33: whatever the sequence of start(), stop() and frame callbacks, at most
\* one frame callback is scheduled at any time, so that no two chains tick and
\* reschedule side by side.
C33_AtMostOneChain == raf <= 1

\* start(), stop() and start() again before the first scheduled callback fired:
\* two callbacks are scheduled in the running game, and one of them has ticked
\* and rescheduled itself
C33_TwoChains ==
    /\ isRunning
    /\ raf = 2
    /\ lastOp.op = "gameLoop"

(***************************************************************************)
(* Properties of Network.disconnect()                                      *)
(***************************************************************************)
DroppedCloseDelivered == lastOp'.op = "ws.onclose" /\ lastOp'.args = <<"dropped">>
SocketCreated ==
    /\ lastOp'.op \in {"connect", "reconnectTimer"}
    /\ ~lastOp'.args[1]
    /\ network.ws # "OPEN"

\* C34: after disconnect() no reconnect timer is pending; the close event of
\* the socket it closed, whenever delivered, schedules no reconnect and consumes
\* no attempt; and no socket is created while another one is still connecting.
C34_DisconnectNeverReconnects ==
    /\ [](lastOp.op = "disconnect" => netHist.pending = 0)
    /\ [][ /\ DroppedCloseDelivered =>
                 /\ network'.reconnectAttempts = network.reconnectAttempts
                 /\ netHist'.pending = netHist.pending
           /\ SocketCreated => network.ws # "CONNECTING" ]_vars

\* the close event of the socket dropped by disconnect() arrived after a new
\* connect(): it consumed an attempt and left a retry pending beside the new,
\* still connecting socket
C34_ReconnectAfterDisconnect ==
    /\ lastOp.op = "ws.onclose"
    /\ lastOp.args = <<"dropped">>
    /\ network.ws = "CONNECTING"
    /\ network.reconnectAttempts = 1
    /\ netHist.pending = 1

(***************************************************************************)
(* Properties of the initialisation guard                                  *)
(***************************************************************************)
\* C35: initializeGame builds its objects at most once per page load, although
\* the completion callback of the countdown fires again after every wave
\* announcement: there are never two Game instances or two Network connections.
C35_InitializedAtMostOnce ==
    /\ app.games <= 1
    /\ app.networks <= 1

\* the callback of a wave announcement has built a second Game and a second
\* Network and started a second render loop beside the first
C35_SecondGame ==
    /\ lastOp.op = "initializeGame"
    /\ app.currentWave > 1
    /\ app.games = 2
    /\ app.networks = 2
    /\ raf = 2

(***************************************************************************)
(* Properties of a gaze message: pointer target against camera offset      *)
(***************************************************************************)
GazeProcessed == lastOp'.op = "processServerData" /\ lastOp'.evaluated

\* the target setTarget gives for the world x of the last message under offsetX
TargetUnder(c, offsetX) ==
    SetTarget(c, Px(lastOp.worldX - offsetX), c.targetY).targetX

\* C36: after a gaze message has been processed, the screen x of the pointer
\* target is the gaze's world x minus the camera offset as it stands at the end
\* of that message (clamped by setTarget), also when the scroll step of the
\* message moved the camera.
C36_TargetUsesFinalOffset ==
    [][GazeProcessed => gazeCursor'.targetX = TargetUnder(gazeCursor, camera.offsetX)']_vars

\* the scroll step of a gaze message moved the camera, and the pointer target
\* is the one computed from the offset before the move
C36_TargetUsesOldOffset ==
    /\ lastOp.op = "processServerData"
    /\ lastOp.evaluated
    /\ camera.offsetX # lastOp.prevOffset
    /\ gazeCursor.targetX = TargetUnder(gazeCursor, lastOp.prevOffset)
    /\ gazeCursor.targetX # TargetUnder(gazeCursor, camera.offsetX)

(***************************************************************************)
(* Properties of the dwell before an edge scroll                           *)
(***************************************************************************)
\* this evaluation found the gaze in the edge zone opposite to the one the
\* evaluation before it had found it in
OppositeZones ==
    /\ GazeProcessed
    /\ lastOp'.zone # "none"
    /\ lastOp'.prevZone # "none"
    /\ lastOp'.zone # lastOp'.prevZone

\* C37: a scroll step is taken only when the dwell has lasted the full
\* threshold, and when two consecutive evaluations go from one edge zone
\* directly to the opposite one the dwell of the new zone is counted from the
\* entry into the new zone: it starts at that evaluation, which does not scroll.
C37_DwellPerZone ==
    [][ /\ GazeProcessed /\ lastOp'.speed > 0 =>
             now' - edgeHoldStartTime' >= EDGE_HOLD_THRESHOLD
        /\ OppositeZones => edgeHoldStartTime' = now' /\ lastOp'.speed = 0 ]_vars

\* the gaze went from the left zone straight into the right zone and the camera
\* scrolled right at once, on the dwell that had begun in the left zone
C37_ScrollWithoutDwell ==
    /\ lastOp.op = "processServerData"
    /\ lastOp.prevZone = "left"
    /\ lastOp.zone = "right"
    /\ lastOp.speed > 0
    /\ camera.offsetX > lastOp.prevOffset
    /\ edgeHoldStartTime = lastOp.prevHold
    /\ edgeHoldStartTime < now

(***************************************************************************)
(* Properties of the window resize                                         *)
(***************************************************************************)
\* C38: after every window resize the viewport width of the camera is the new
\* width of the canvases and the offset lies within the bounds for that width.
C38_ResizeUpdatesCamera ==
    [][lastOp'.op = "resize" =>
          /\ camera'.viewportWidth = app'.canvasWidth
          /\ camera'.offsetX >= 0
          /\ camera'.offsetX <= Max(0, WORLD_WIDTH - app'.canvasWidth)]_vars

\* the window has been resized and the camera still holds the width it was
\* built with
C38_StaleViewport ==
    /\ lastOp.op = "resize"
    /\ app.canvasWidth = lastOp.args[1]
    /\ camera.viewportWidth = InnerWidth
    /\ camera.viewportWidth # app.canvasWidth
====
